---- MODULE Spec2Model ----
(***************************************************************************)
(* Ingestion pipeline of backend-fastapi-3: the raw-sample write-behind    *)
(* buffer (mqtt/client.py flush_buffer_to_db, mqtt_listener_task), the     *)
(* model activation transaction (services/crud_ml.py save_new_model) and   *)
(* the per-device session state machine (mqtt/client.py                    *)
(* process_mqtt_message, finalize_session, check_session_timeouts).        *)
(*                                                                         *)
(* Units: instants are whole seconds, weights are grams (the source holds  *)
(* kilograms as floats: 0.005 kg = 5 g, 0.05 kg = 50 g).                   *)
(*                                                                         *)
(* The specifications share the variables; each one moves the part of the  *)
(* state its operations own and leaves the rest alone.  Among them:        *)
(*   SpecFlush     the listener loop, the raw buffer and the raw tables    *)
(*   SpecTrain     concurrent save_new_model transactions                  *)
(*   Spec          the session state machine, the reaper, the event log    *)
(*   SpecIngest    the session state machine with malformed messages       *)
(*   SpecShutdown  the listener loop until the server cancels it           *)
(*   SpecHub       the event hubs and the SSE responses                    *)
(*   SpecFeatures  engineer_features applied to lists of sessions          *)
(*   SpecTemp      the session state machine with absent and zero          *)
(*                 temperatures                                            *)
(*   SpecHistory   get_sensor_history next to a tag reassignment           *)
(*   SpecRace      finalize_session next to a training run's save          *)
(*   SpecReap      the reaper over two feeders, with failing checks        *)
(*   FairSpecStream  the SSE responses whose clients go away               *)
(***************************************************************************)
EXTENDS Integers, Sequences, FiniteSets, TLC

\* ---------------------------------------------------------------- constants
BUFFER_SIZE == 100
BUFFER_TIMEOUT == 5
SESSION_TIMEOUT_SECONDS == 30
NOISE_THRESHOLD == 5
WEIGHT_START_THRESHOLD == 50
ReconnectDelay == 5

\* ------------------------------------------------------------------- bounds
MaxFlushMsgs == 4
MaxFlushTime == 11
MaxOutages == 2

\* Python None for a tag, and for a number (weight, temperature, "ts")
NoTag == "none"
NoNumber == 0 - 1

NoCow == "nocow"

VARIABLES
    now,                    \* wall clock, seconds
    \* --- raw buffer and listener loop
    MQTT_DATA_BUFFER,       \* sequence of record_dict
    last_flush_time,        \* local of mqtt_listener_task
    listener,               \* "connected" | "backoff"
    wake_at,                \* end of the listener's sleep(5)
    accepted,               \* number of samples appended so far (ghost)
    storeUp,                \* the store accepts writes
    outages,                \* number of store outages so far (ghost)
    output_sensor,          \* raw-sample table, rows in insertion order
    device,                 \* device table: device_id -> row or NoDevice
    rfid_tag,               \* rfid_tag table: set of tag ids
    \* --- model table and save_new_model transactions
    machine_learning_model, \* set of rows [model_id, cow_id, is_active]
    txn,                    \* per training run: the state of its transaction
    \* --- session state machine
    ACTIVE_SESSIONS,        \* device_id -> session state or NoSession
    session_keys,           \* the keys of ACTIVE_SESSIONS in insertion order
    rfid_ownership,         \* ownership windows [rfid_id, cow_id, time_end]
    eat_session,            \* session table, rows in insertion order
    anomaly,                \* anomaly table: set of rows
    published,              \* calls of streaming_broker.broadcast, in order
    subscriber,             \* mqtt_listener_task inside process_mqtt_message
    reaper,                 \* session_timeout_checker_task
    stream,                 \* the samples handed to process_mqtt_message (ghost)
    \* --- requests and background jobs
    assign,                 \* per caller: its assign_rfid_to_cow transaction
    job,                    \* per training run: train_model_for_cow
    ml_training_status,     \* system_broker.broadcast calls on that channel
    scorer,                 \* periodic_prediction_task
    anomaly_writes,         \* the calls of save_anomaly_scores, in order (ghost)
    \* --- malformed messages, event hubs, SSE responses, feature extractor
    malformed,              \* the malformed messages handled so far (ghost)
    clients,                \* the hubs' registries: key -> list of queues
    queues,                 \* per queue: the events put and not yet taken
    responses,              \* per SSE response: its generator and its frames
    hub_log,                \* the calls of broadcast, in order (ghost)
    feature_input,          \* the sessions handed to engineer_features
    feature_output          \* the array it returned

flushVars == <<MQTT_DATA_BUFFER, last_flush_time, listener, wake_at, accepted,
               storeUp, outages, output_sensor, device, rfid_tag>>
trainVars == <<machine_learning_model, txn>>
sessionVars == <<ACTIVE_SESSIONS, session_keys, rfid_ownership, eat_session,
                 anomaly, published, subscriber, reaper, stream>>
requestVars == <<assign, job, ml_training_status, scorer, anomaly_writes>>
hubVars == <<clients, queues, responses, hub_log>>
featureVars == <<feature_input, feature_output>>
frontVars == <<malformed, hubVars, featureVars>>
vars == <<now, flushVars, trainVars, sessionVars, requestVars, frontVars>>

\* =========================================================================
\*                       RAW BUFFER  (mqtt/client.py)
\* =========================================================================
FlushDevices == {"d1"}
FlushTags == {NoTag, "T1"}
FlushStamps == {NoNumber, 0}
FlushTicks == {BUFFER_TIMEOUT}
NoDevice == [status |-> "absent", last_ip |-> "", last_seen |-> NoNumber]

\* the failing steps of one flush: acquiring the connection, or a statement
FaultSets == {{"acquire"}, {"device"}, {"rfid"}, {"insert"},
              {"device", "rfid", "insert"}}

\* process_mqtt_message: "ts" absent or unparseable -> the server's now
StampOf(ts) == IF ts = NoNumber THEN now ELSE ts

\* process_mqtt_message: record_dict
RecordDict(seq, dev, rfid, w, temp, ts) ==
    [seq |-> seq, timestamp |-> StampOf(ts), device_id |-> dev,
     rfid_id |-> rfid, weight |-> w, temperature_c |-> temp, ip |-> "ip1"]

\* flush_buffer_to_db: device_updates[msg['device_id']] = (ip, timestamp),
\* the last message of a device in batch order wins; then the upsert
RECURSIVE DeviceUpdates(_, _)
DeviceUpdates(batch, dev) ==
    IF batch = <<>> THEN dev
    ELSE DeviceUpdates(Tail(batch),
            [dev EXCEPT ![Head(batch).device_id] =
                [status |-> "ONLINE", last_ip |-> Head(batch).ip,
                 last_seen |-> Head(batch).timestamp]])

\* flush_buffer_to_db: rfid_ids_to_register
RfidsToRegister(batch) ==
    {batch[i].rfid_id : i \in {j \in 1..Len(batch) : batch[j].rfid_id # NoTag}}

\* flush_buffer_to_db with the set F of failing steps.  A failure inside
\* upsert_device_status, upsert_rfid_tags or batch_insert_sensor_data is
\* caught and printed there; only a failure of pool.acquire reaches the
\* except clause that puts the batch back.
FlushBufferToDb(buf, F) ==
    IF buf = <<>> THEN
        [buffer |-> buf, sensor |-> output_sensor, dev |-> device,
         tags |-> rfid_tag]
    ELSE IF "acquire" \in F THEN
        [buffer |-> <<>> \o buf, sensor |-> output_sensor, dev |-> device,
         tags |-> rfid_tag]
    ELSE
        [buffer |-> <<>>,
         sensor |-> IF "insert" \in F THEN output_sensor
                    ELSE output_sensor \o buf,
         dev    |-> IF "device" \in F THEN device
                    ELSE DeviceUpdates(buf, device),
         tags   |-> IF "rfid" \in F THEN rfid_tag
                    ELSE rfid_tag \cup RfidsToRegister(buf)]

\* the failing steps a flush can meet in the current state of the store
FaultsNow == IF storeUp THEN {{}} ELSE FaultSets

ApplyFlush(r) ==
    /\ MQTT_DATA_BUFFER' = r.buffer
    /\ output_sensor' = r.sensor
    /\ device' = r.dev
    /\ rfid_tag' = r.tags

\* mqtt_listener_task, one iteration of "async for message": the sample is
\* appended, then the flush triggers are evaluated
ListenerReceive ==
    /\ listener = "connected"
    /\ accepted < MaxFlushMsgs
    /\ \E dev \in FlushDevices, rfid \in FlushTags, ts \in FlushStamps :
        LET rec == RecordDict(accepted + 1, dev, rfid, 60, 20, ts)
            buf == Append(MQTT_DATA_BUFFER, rec)
        IN  /\ accepted' = accepted + 1
            /\ IF Len(buf) >= BUFFER_SIZE
                  \/ now - last_flush_time >= BUFFER_TIMEOUT
               THEN /\ \E F \in FaultsNow : ApplyFlush(FlushBufferToDb(buf, F))
                    /\ last_flush_time' = now
               ELSE /\ MQTT_DATA_BUFFER' = buf
                    /\ UNCHANGED <<output_sensor, device, rfid_tag,
                                   last_flush_time>>
    /\ UNCHANGED <<now, listener, wake_at, storeUp, outages, trainVars, sessionVars, requestVars, frontVars>>

\* variant: the listener sleeps without flushing
ListenerDropNoFlush ==
    /\ listener = "connected"
    /\ listener' = "backoff"
    /\ wake_at' = now + ReconnectDelay
    /\ UNCHANGED <<now, MQTT_DATA_BUFFER, output_sensor, device, rfid_tag,
                   last_flush_time, accepted, storeUp, outages, trainVars,
                   sessionVars, requestVars, frontVars>>

\* mqtt_listener_task, except aiomqtt.MqttError: flush, then sleep(5)
ListenerDrop ==
    /\ listener = "connected"
    /\ \E F \in FaultsNow : ApplyFlush(FlushBufferToDb(MQTT_DATA_BUFFER, F))
    /\ listener' = "backoff"
    /\ wake_at' = now + ReconnectDelay
    /\ UNCHANGED <<now, last_flush_time, accepted, storeUp, outages, trainVars, sessionVars, requestVars, frontVars>>

\* mqtt_listener_task: the sleep is over, the while loop connects again
ListenerReconnect ==
    /\ listener = "backoff"
    /\ now >= wake_at
    /\ listener' = "connected"
    /\ UNCHANGED <<now, MQTT_DATA_BUFFER, last_flush_time, wake_at, accepted,
                   storeUp, outages, output_sensor, device, rfid_tag, trainVars, sessionVars, requestVars, frontVars>>

\* the store stops / resumes accepting writes
StoreFail ==
    /\ storeUp
    /\ outages < MaxOutages
    /\ storeUp' = FALSE
    /\ outages' = outages + 1
    /\ UNCHANGED <<now, MQTT_DATA_BUFFER, last_flush_time, listener, wake_at,
                   accepted, output_sensor, device, rfid_tag, trainVars, sessionVars, requestVars, frontVars>>

StoreRecover ==
    /\ ~storeUp
    /\ storeUp' = TRUE
    /\ UNCHANGED <<now, MQTT_DATA_BUFFER, last_flush_time, listener, wake_at,
                   accepted, outages, output_sensor, device, rfid_tag, trainVars, sessionVars, requestVars, frontVars>>

FlushTick ==
    /\ \E d \in FlushTicks : now + d <= MaxFlushTime /\ now' = now + d
    /\ UNCHANGED <<flushVars, trainVars, sessionVars, requestVars, frontVars>>

InitFlushPart ==
    /\ MQTT_DATA_BUFFER = <<>>
    /\ last_flush_time = 0
    /\ listener = "connected"
    /\ wake_at = 0
    /\ accepted = 0
    /\ storeUp = TRUE
    /\ outages = 0
    /\ output_sensor = <<>>
    /\ device = [d \in FlushDevices |-> NoDevice]
    /\ rfid_tag = {}

\* =========================================================================
\*              MODEL ACTIVATION  (services/crud_ml.py save_new_model)
\* =========================================================================
\* The training runs that can be in save_new_model at the same time: the
\* daily periodic_training_task and a background task of trigger_cow_training.
\* Each holds its own pooled connection; the store runs each transaction at
\* its default isolation (read committed): a statement sees the rows
\* committed when it starts, an UPDATE waits for a row another open
\* transaction has updated and re-evaluates its WHERE clause on that row only.
Runs == {"periodic", "ondemand"}
TrainCows == {"cowA", NoCow}
MaxModels == 3

IdleTxn == [pc |-> "idle", cow_id |-> NoCow, targets |-> {}, deact |-> {}]

\* rows of the model table that are active for the bucket of cow c
ActiveModels(c) ==
    {m \in machine_learning_model : m.cow_id = c /\ m.is_active}

\* rows updated, not yet committed, by a transaction other than r
LockedByOther(r) ==
    UNION {txn[o].deact : o \in {x \in Runs : x # r /\ txn[x].pc = "insert"}}

OpenTxns == {r \in Runs : txn[r].pc # "idle"}

\* train_model_for_cow -> save_new_model(db, cow_id, ...): async with
\* db.transaction()
SaveBegin(r, c) ==
    /\ txn[r].pc = "idle"
    /\ Cardinality(machine_learning_model) + Cardinality(OpenTxns) < MaxModels
    /\ txn' = [txn EXCEPT ![r] = [IdleTxn EXCEPT !.pc = "update", !.cow_id = c]]
    /\ UNCHANGED <<now, flushVars, machine_learning_model, sessionVars, requestVars, frontVars>>

\* UPDATE machine_learning_model SET is_active = false
\*  WHERE cow_id = $1 (or IS NULL) AND is_active = true
SaveUpdate(r) ==
    /\ txn[r].pc = "update"
    /\ LET targets == {m.model_id : m \in ActiveModels(txn[r].cow_id)}
       IN  IF targets \cap LockedByOther(r) # {}
           THEN txn' = [txn EXCEPT ![r].pc = "wait", ![r].targets = targets]
           ELSE txn' = [txn EXCEPT ![r].pc = "insert", ![r].targets = targets,
                                   ![r].deact = targets]
    /\ UNCHANGED <<now, flushVars, machine_learning_model, sessionVars, requestVars, frontVars>>

\* the UPDATE gets its row locks after the other transaction has ended and
\* re-checks is_active = true on the rows it was waiting for
SaveUpdateResume(r) ==
    /\ txn[r].pc = "wait"
    /\ txn[r].targets \cap LockedByOther(r) = {}
    /\ txn' = [txn EXCEPT ![r].pc = "insert",
                  ![r].deact = {id \in txn[r].targets :
                        \E m \in machine_learning_model :
                            m.model_id = id /\ m.is_active}]
    /\ UNCHANGED <<now, flushVars, machine_learning_model, sessionVars, requestVars, frontVars>>

\* INSERT INTO machine_learning_model (..., is_active) VALUES (..., true) and
\* the commit at the end of the "async with" block
SaveCommit(r) ==
    /\ txn[r].pc = "insert"
    /\ machine_learning_model' =
         {IF m.model_id \in txn[r].deact THEN [m EXCEPT !.is_active = FALSE]
                                         ELSE m : m \in machine_learning_model}
         \cup {[model_id |-> Cardinality(machine_learning_model) + 1,
                cow_id |-> txn[r].cow_id, is_active |-> TRUE]}
    /\ txn' = [txn EXCEPT ![r] = IdleTxn]
    /\ UNCHANGED <<now, flushVars, sessionVars, requestVars, frontVars>>

\* a statement raises: the transaction rolls back, "Error saving new model"
SaveError(r) ==
    /\ txn[r].pc \in {"update", "wait", "insert"}
    /\ txn' = [txn EXCEPT ![r] = IdleTxn]
    /\ UNCHANGED <<now, flushVars, machine_learning_model, sessionVars, requestVars, frontVars>>

\* =========================================================================
\*                 SESSION STATE MACHINE  (mqtt/client.py)
\* =========================================================================
Devices == {"d1"}
Weights == {NoNumber, 50, 55, 60}
Stamps == {NoNumber, 0}
\* the samples a device sends: tag T1 with every weight and stamp, the other
\* tags and the absent tag with fewer
Samples ==
    {[rfid |-> "T1", w |-> w, temp |-> 20, ts |-> ts] :
        w \in Weights, ts \in Stamps}
    \cup {[rfid |-> "T2", w |-> w, temp |-> 20, ts |-> ts] :
              w \in {50, 60}, ts \in Stamps}
    \cup {[rfid |-> "T3", w |-> 60, temp |-> 20, ts |-> NoNumber],
          [rfid |-> NoTag, w |-> 60, temp |-> 20, ts |-> NoNumber]}
ClockSteps == {SESSION_TIMEOUT_SECONDS, SESSION_TIMEOUT_SECONDS + 1}
MaxTime == 31
MaxMsgs == 3

NoSession == [rfid_id |-> NoTag]
NoScore == "none"
IdleSubscriber == [pc |-> "idle"]
SleepingReaper == [pc |-> "sleep"]

\* what model.score_samples / model.predict give for one session: the
\* artifact is opaque, so each result the scorer can return is possible
PredictOutcomes == {"load_error", "normal", "anomaly"}

\* variant: the lookup without "time_end IS NULL", closed windows count
GetAnyCowByRfid(rfid) ==
    IF rfid = NoTag THEN {NoCow}
    ELSE LET any == {o \in rfid_ownership : o.rfid_id = rfid}
         IN  IF any = {} THEN {NoCow} ELSE {o.cow_id : o \in any}

\* services/crud_session.py get_active_cow_by_rfid: the cows of the open
\* windows of the tag (fetchrow returns one of them, None when there is none)
GetActiveCowByRfid(rfid) ==
    IF rfid = NoTag THEN {NoCow}
    ELSE LET open == {o \in rfid_ownership :
                          o.rfid_id = rfid /\ o.time_end = NoNumber}
         IN  IF open = {} THEN {NoCow} ELSE {o.cow_id : o \in open}

\* services/crud_ml.py get_active_model_for_cow: the cow's active model,
\* else the active model of the null bucket, else None (the empty set)
GetActiveModelForCow(cow) ==
    LET own == {m \in machine_learning_model : m.cow_id = cow /\ m.is_active}
        glob == {m \in machine_learning_model : m.cow_id = NoCow /\ m.is_active}
    IN  IF own # {} THEN own ELSE glob

\* variant: the threshold itself is accepted
StartConditionAtLeast(rfid, w) ==
    rfid # NoTag /\ w # NoNumber /\ w >= WEIGHT_START_THRESHOLD

\* process_mqtt_message, line 265: the condition to call start_new_session
StartCondition(rfid, w) ==
    rfid # NoTag /\ w # NoNumber /\ w > WEIGHT_START_THRESHOLD

\* variant: the session starts at the server's clock, not at the sample's
\* instant
NewSessionServerClock(rfid, cow, w, temp, ts) ==
    [rfid_id |-> rfid, cow_id |-> cow, time_start |-> now, weight_start |-> w,
     last_weight |-> w, last_seen |-> ts, last_consumption_time |-> ts,
     temp_sum |-> IF temp # NoNumber /\ temp # 0 THEN temp ELSE 0,
     temp_count |-> IF temp # NoNumber /\ temp # 0 THEN 1 ELSE 0]

\* start_new_session: the state stored in ACTIVE_SESSIONS[device_id]
\* ("temp if temp else 0.0": a temperature of None or 0 is not counted)
NewSession(rfid, cow, w, temp, ts) ==
    [rfid_id |-> rfid, cow_id |-> cow, time_start |-> ts, weight_start |-> w,
     last_weight |-> w, last_seen |-> ts, last_consumption_time |-> ts,
     temp_sum |-> IF temp # NoNumber /\ temp # 0 THEN temp ELSE 0,
     temp_count |-> IF temp # NoNumber /\ temp # 0 THEN 1 ELSE 0]

\* variant: last_seen moves only when weight was consumed
SameTagUpdateSeenOnConsumption(st, w, temp, ts) ==
    [st EXCEPT
       !.last_seen = IF st.last_weight - w > NOISE_THRESHOLD THEN ts ELSE @,
       !.last_consumption_time =
            IF st.last_weight - w > NOISE_THRESHOLD THEN ts ELSE @,
       !.last_weight = w,
       !.temp_sum = IF temp # NoNumber THEN @ + temp ELSE @,
       !.temp_count = IF temp # NoNumber THEN @ + 1 ELSE @]

\* process_mqtt_message, lines 240-250: a sample of the session's own tag
SameTagUpdate(st, w, temp, ts) ==
    [st EXCEPT
       !.last_seen = ts,
       !.last_consumption_time =
            IF st.last_weight - w > NOISE_THRESHOLD THEN ts ELSE @,
       !.last_weight = w,
       !.temp_sum = IF temp # NoNumber THEN @ + temp ELSE @,
       !.temp_count = IF temp # NoNumber THEN @ + 1 ELSE @]

\* variant: the reaper fires as soon as any time has passed since the last
\* consumption
TimedOutAnyIdle(t, st) == t - st.last_consumption_time > 0

\* variant: the reaper fires at the timeout itself
TimedOutAtLeast(t, st) ==
    t - st.last_consumption_time >= SESSION_TIMEOUT_SECONDS

\* check_session_timeouts, line 281
TimedOut(t, st) == t - st.last_consumption_time > SESSION_TIMEOUT_SECONDS

\* variant: the session ends at its last consumption
FinalizeArgsAtConsumption(dev, st) ==
    [device_id |-> dev, st |-> st, last_weight |-> st.last_weight,
     last_timestamp |-> st.last_consumption_time]

\* the arguments both callers pass to finalize_session:
\* state['last_weight'], state['last_seen']
FinalizeArgs(dev, st) ==
    [device_id |-> dev, st |-> st, last_weight |-> st.last_weight,
     last_timestamp |-> st.last_seen]

\* finalize_session: avg_temp, a fraction (0.0 when no temperature counted)
AverageTemp(st) ==
    IF st.temp_count > 0 THEN [num |-> st.temp_sum, den |-> st.temp_count]
    ELSE [num |-> 0, den |-> 1]

\* services/crud_session.py create_eat_session, line 25: the candidate is
\* cancelled and None is returned
SessionCanceled(weight_start, weight_end) == weight_end >= weight_start

\* realtime_predict_and_save: (anomaly_score, is_anomaly)
Predict(models, outcome) ==
    IF models = {} \/ outcome = "load_error"
    THEN [score |-> NoScore, is_anomaly |-> FALSE]
    ELSE [score |-> outcome, is_anomaly |-> outcome = "anomaly"]

\* finalize_session, line 154: "session_id and model_id and is_anomaly is
\* not None" (is_anomaly is a bool at that point, never None)
SavesAnomaly(inserted, models) == inserted /\ models # {}

\* the anomaly rows of a (model, session) pair
AnomalyRowsOf(rows, model_id, session_id) ==
    {a \in rows : a.model_id = model_id /\ a.session_id = session_id}

\* variant: ON CONFLICT (model_id, session_id) DO UPDATE, the last write wins
SaveAnomalyScoresUpsert(rows, data) ==
    LET Last(i) == \A j \in (i + 1)..Len(data) :
                       \/ data[j].model_id # data[i].model_id
                       \/ data[j].session_id # data[i].session_id
        Rewritten(a) == \E i \in 1..Len(data) :
                            /\ data[i].model_id = a.model_id
                            /\ data[i].session_id = a.session_id
    IN  {a \in rows : ~Rewritten(a)}
        \cup {data[i] : i \in {k \in 1..Len(data) : Last(k)}}

\* services/crud_ml.py save_anomaly_scores: executemany of INSERT ... ON
\* CONFLICT (model_id, session_id) DO NOTHING, the tuples of data in order.
\* The conflict target is the unique index on (model_id, session_id) the
\* statement names.
SaveAnomalyScores(rows, data) ==
    LET First(i) == \A j \in 1..(i - 1) :
                        \/ data[j].model_id # data[i].model_id
                        \/ data[j].session_id # data[i].session_id
        Fresh(i) == AnomalyRowsOf(rows, data[i].model_id,
                                  data[i].session_id) = {}
    IN  rows \cup {data[i] : i \in {k \in 1..Len(data) : First(k) /\ Fresh(k)}}

\* dict pop / dict insert on ACTIVE_SESSIONS with its key order
PopKey(keys, dev) == SelectSeq(keys, LAMBDA k : k # dev)
PutKey(keys, dev) ==
    IF \E i \in 1..Len(keys) : keys[i] = dev THEN keys ELSE Append(keys, dev)

\* finalize_session after the pop (lines 115-169): score, insert the session
\* row unless create_eat_session cancels it, insert the anomaly row, then
\* broadcast session_end
FinalizeSession(fin) ==
    \E outcome \in PredictOutcomes :
      LET st == fin.st
          models == GetActiveModelForCow(st.cow_id)
          pred == Predict(models, outcome)
          inserted == ~SessionCanceled(st.weight_start, fin.last_weight)
          sid == Len(eat_session) + 1
      IN  /\ eat_session' =
                IF inserted
                THEN Append(eat_session,
                       [session_id |-> sid, device_id |-> fin.device_id,
                        rfid_id |-> st.rfid_id, cow_id |-> st.cow_id,
                        time_start |-> st.time_start,
                        time_end |-> fin.last_timestamp,
                        weight_start |-> st.weight_start,
                        weight_end |-> fin.last_weight,
                        average_temp |-> AverageTemp(st)])
                ELSE eat_session
          /\ IF SavesAnomaly(inserted, models)
             THEN \E m \in models :
                    anomaly' = SaveAnomalyScores(anomaly,
                        <<[model_id |-> m.model_id, session_id |-> sid,
                           anomaly_score |-> pred.score,
                           is_anomaly |-> pred.is_anomaly]>>)
             ELSE anomaly' = anomaly
          /\ published' = Append(published,
                [key |-> st.cow_id, event |-> "session_end",
                 device_id |-> fin.device_id,
                 timestamp |-> fin.last_timestamp,
                 average_temp |-> AverageTemp(st),
                 anomaly |-> pred.is_anomaly, score |-> pred.score])

\* process_mqtt_message, lines 225-266, up to its first suspension: the
\* record is appended to the raw buffer, then the same-tag branch runs to its end, the other branch pops the session (the
\* synchronous head of finalize_session) and goes on in SubscriberFinalize
\* and SubscriberStart
ProcessMqttMessage(dev, rfid, w, temp, tsIn) ==
    LET ts == StampOf(tsIn)
        st == ACTIVE_SESSIONS[dev]
        has == st # NoSession
        current_rfid == IF has THEN st.rfid_id ELSE NoTag
        msg == [device_id |-> dev, rfid |-> rfid, w |-> w, temp |-> temp,
                ts |-> ts]
    IN  /\ subscriber.pc = "idle"
        /\ Len(stream) < MaxMsgs
        /\ stream' = Append(stream, msg)
        /\ MQTT_DATA_BUFFER' = Append(MQTT_DATA_BUFFER,
                RecordDict(accepted + 1, dev, rfid, w, temp, tsIn))
        /\ accepted' = accepted + 1
        /\ IF rfid = current_rfid THEN
              /\ IF has /\ w # NoNumber
                 THEN /\ ACTIVE_SESSIONS' = [ACTIVE_SESSIONS EXCEPT
                              ![dev] = SameTagUpdate(st, w, temp, ts)]
                      /\ published' = Append(published,
                            [key |-> st.cow_id, event |-> "sensor_update",
                             device_id |-> dev, timestamp |-> ts,
                             weight |-> w, temperature_c |-> temp])
                 ELSE UNCHANGED <<ACTIVE_SESSIONS, published>>
              /\ UNCHANGED <<session_keys, subscriber>>
           ELSE
              /\ IF has
                 THEN /\ ACTIVE_SESSIONS' = [ACTIVE_SESSIONS EXCEPT
                                                ![dev] = NoSession]
                      /\ session_keys' = PopKey(session_keys, dev)
                      /\ subscriber' = [pc |-> "finalize", msg |-> msg,
                                        fin |-> FinalizeArgs(dev, st)]
                 ELSE /\ UNCHANGED <<ACTIVE_SESSIONS, session_keys>>
                      /\ subscriber' = IF StartCondition(rfid, w)
                                       THEN [pc |-> "start", msg |-> msg]
                                       ELSE IdleSubscriber
              /\ UNCHANGED published
        /\ UNCHANGED <<now, last_flush_time, listener, wake_at, storeUp,
                       outages, output_sensor, device, rfid_tag, trainVars,
                       requestVars, frontVars, rfid_ownership, eat_session, anomaly,
                       reaper>>

\* process_mqtt_message, line 263: the store round trips of finalize_session
SubscriberFinalize ==
    /\ subscriber.pc = "finalize"
    /\ FinalizeSession(subscriber.fin)
    /\ subscriber' = IF StartCondition(subscriber.msg.rfid, subscriber.msg.w)
                     THEN [pc |-> "start", msg |-> subscriber.msg]
                     ELSE IdleSubscriber
    /\ UNCHANGED <<now, flushVars, trainVars, requestVars, frontVars, ACTIVE_SESSIONS, session_keys,
                   rfid_ownership, reaper, stream>>

\* process_mqtt_message, line 266: start_new_session
StartNewSession ==
    /\ subscriber.pc = "start"
    /\ LET msg == subscriber.msg
       IN  \E cow \in GetActiveCowByRfid(msg.rfid) :
             IF cow = NoCow
             THEN UNCHANGED <<ACTIVE_SESSIONS, session_keys>>
             ELSE /\ ACTIVE_SESSIONS' = [ACTIVE_SESSIONS EXCEPT
                        ![msg.device_id] =
                            NewSession(msg.rfid, cow, msg.w, msg.temp, msg.ts)]
                  /\ session_keys' = PutKey(session_keys, msg.device_id)
    /\ subscriber' = IdleSubscriber
    /\ UNCHANGED <<now, flushVars, trainVars, requestVars, frontVars, rfid_ownership, eat_session,
                   anomaly, published, reaper, stream>>

\* session_timeout_checker_task: the sleep ends, check_session_timeouts
\* reads the clock and takes list(ACTIVE_SESSIONS.keys())
ReaperWake ==
    /\ reaper.pc = "sleep"
    /\ reaper' = [pc |-> "scan", now |-> now, keys |-> session_keys]
    /\ UNCHANGED <<now, flushVars, trainVars, requestVars, frontVars, ACTIVE_SESSIONS, session_keys,
                   rfid_ownership, eat_session, anomaly, published,
                   subscriber, stream>>

\* variant: the timed-out session is handed to finalize_session and stays
\* in ACTIVE_SESSIONS
CheckSessionTimeoutsNoPop ==
    /\ reaper.pc = "scan"
    /\ reaper.keys # <<>>
    /\ LET dev == Head(reaper.keys)
           st == ACTIVE_SESSIONS[dev]
           rest == [reaper EXCEPT !.keys = Tail(reaper.keys)]
       IN  IF st # NoSession /\ TimedOut(reaper.now, st)
           THEN /\ published' = Append(published,
                      [key |-> st.cow_id, event |-> "session_timeout",
                       device_id |-> dev, timestamp |-> st.last_seen])
                /\ UNCHANGED <<ACTIVE_SESSIONS, session_keys>>
                /\ reaper' = [pc |-> "finalize", now |-> reaper.now,
                              keys |-> Tail(reaper.keys),
                              fin |-> FinalizeArgs(dev, st)]
           ELSE /\ reaper' = rest
                /\ UNCHANGED <<ACTIVE_SESSIONS, session_keys, published>>
    /\ UNCHANGED <<now, flushVars, trainVars, requestVars, frontVars, rfid_ownership, eat_session,
                   anomaly, subscriber, stream>>

\* check_session_timeouts, one iteration of the for loop up to its first
\* suspension: a timed-out session is announced and popped
CheckSessionTimeouts ==
    /\ reaper.pc = "scan"
    /\ reaper.keys # <<>>
    /\ LET dev == Head(reaper.keys)
           st == ACTIVE_SESSIONS[dev]
           rest == [reaper EXCEPT !.keys = Tail(reaper.keys)]
       IN  IF st # NoSession /\ TimedOut(reaper.now, st)
           THEN /\ published' = Append(published,
                      [key |-> st.cow_id, event |-> "session_timeout",
                       device_id |-> dev, timestamp |-> st.last_seen])
                /\ ACTIVE_SESSIONS' = [ACTIVE_SESSIONS EXCEPT
                                          ![dev] = NoSession]
                /\ session_keys' = PopKey(session_keys, dev)
                /\ reaper' = [pc |-> "finalize", now |-> reaper.now,
                              keys |-> Tail(reaper.keys),
                              fin |-> FinalizeArgs(dev, st)]
           ELSE /\ reaper' = rest
                /\ UNCHANGED <<ACTIVE_SESSIONS, session_keys, published>>
    /\ UNCHANGED <<now, flushVars, trainVars, requestVars, frontVars, rfid_ownership, eat_session,
                   anomaly, subscriber, stream>>

\* check_session_timeouts, line 292: the store round trips of finalize_session
ReaperFinalize ==
    /\ reaper.pc = "finalize"
    /\ FinalizeSession(reaper.fin)
    /\ reaper' = [pc |-> "scan", now |-> reaper.now, keys |-> reaper.keys]
    /\ UNCHANGED <<now, flushVars, trainVars, requestVars, frontVars, ACTIVE_SESSIONS, session_keys,
                   rfid_ownership, subscriber, stream>>

\* check_session_timeouts returns, the task sleeps again
ReaperSleep ==
    /\ reaper.pc = "scan"
    /\ reaper.keys = <<>>
    /\ reaper' = SleepingReaper
    /\ UNCHANGED <<now, flushVars, trainVars, requestVars, frontVars, ACTIVE_SESSIONS, session_keys,
                   rfid_ownership, eat_session, anomaly, published,
                   subscriber, stream>>

Tick ==
    /\ \E d \in ClockSteps : now + d <= MaxTime /\ now' = now + d
    /\ UNCHANGED <<flushVars, trainVars, sessionVars, requestVars, frontVars>>

\* =========================================================================
\*          TAG ASSIGNMENT  (services/crud_rfid.py assign_rfid_to_cow)
\* =========================================================================
\* The requests POST /rfid/assign that can be in assign_rfid_to_cow at the
\* same time, each on its own pooled connection, at the store's default
\* isolation (read committed, as for save_new_model).
Callers == {"a1", "a2"}
AssignTags == {"T1", "T2"}
AssignCows == {"cowA", "cowB"}
MaxWindows == 5

IdleAssign == [pc |-> "idle", rfid_id |-> NoTag, cow_id |-> NoCow,
               at |-> NoNumber, targets |-> {}, closed |-> {}]

\* the open windows of a tag, by their row identity
OpenWindows(rfid) ==
    {o \in rfid_ownership : o.rfid_id = rfid /\ o.time_end = NoNumber}

\* window rows updated, not yet committed, by a request other than r
WindowsLockedByOther(r) ==
    UNION {assign[o].closed :
              o \in {x \in Callers : x # r /\ assign[x].pc = "insert"}}

OpenAssigns == {r \in Callers : assign[r].pc # "idle"}

\* assign_rfid_to_cow: async with db.transaction(); NOW() is the instant the
\* transaction starts
AssignBegin(r, rfid, cow) ==
    /\ assign[r].pc = "idle"
    /\ Cardinality(rfid_ownership) + Cardinality(OpenAssigns) < MaxWindows
    /\ assign' = [assign EXCEPT ![r] =
                    [IdleAssign EXCEPT !.pc = "update", !.rfid_id = rfid,
                                       !.cow_id = cow, !.at = now]]
    /\ UNCHANGED <<now, frontVars, flushVars, trainVars, sessionVars, job,
                   ml_training_status, scorer, anomaly_writes>>

\* UPDATE rfid_ownership SET time_end = NOW()
\*  WHERE rfid_id = $1 AND time_end IS NULL
AssignUpdate(r) ==
    /\ assign[r].pc = "update"
    /\ LET targets == {o.own_id : o \in OpenWindows(assign[r].rfid_id)}
       IN  IF targets \cap WindowsLockedByOther(r) # {}
           THEN assign' = [assign EXCEPT ![r].pc = "wait",
                                         ![r].targets = targets]
           ELSE assign' = [assign EXCEPT ![r].pc = "insert",
                                         ![r].targets = targets,
                                         ![r].closed = targets]
    /\ UNCHANGED <<now, frontVars, flushVars, trainVars, sessionVars, job,
                   ml_training_status, scorer, anomaly_writes>>

\* the UPDATE gets its row locks after the other transaction has ended and
\* re-checks time_end IS NULL on the rows it was waiting for
AssignUpdateResume(r) ==
    /\ assign[r].pc = "wait"
    /\ assign[r].targets \cap WindowsLockedByOther(r) = {}
    /\ assign' = [assign EXCEPT ![r].pc = "insert",
                    ![r].closed = {id \in assign[r].targets :
                        \E o \in rfid_ownership :
                            o.own_id = id /\ o.time_end = NoNumber}]
    /\ UNCHANGED <<now, frontVars, flushVars, trainVars, sessionVars, job,
                   ml_training_status, scorer, anomaly_writes>>

\* INSERT INTO rfid_ownership (rfid_id, time_start, cow_id, time_end)
\* VALUES ($1, NOW(), $2, NULL) and the commit at the end of the block
AssignCommit(r) ==
    /\ assign[r].pc = "insert"
    /\ rfid_ownership' =
         {IF o.own_id \in assign[r].closed
          THEN [o EXCEPT !.time_end = assign[r].at] ELSE o :
             o \in rfid_ownership}
         \cup {[own_id |-> Cardinality(rfid_ownership) + 1,
                rfid_id |-> assign[r].rfid_id, cow_id |-> assign[r].cow_id,
                time_start |-> assign[r].at, time_end |-> NoNumber]}
    /\ assign' = [assign EXCEPT ![r] = IdleAssign]
    /\ UNCHANGED <<now, frontVars, flushVars, trainVars, ACTIVE_SESSIONS, session_keys,
                   eat_session, anomaly, published, subscriber, reaper,
                   stream, job, ml_training_status, scorer, anomaly_writes>>

\* a statement raises (foreign key violation, lost connection): the
\* transaction rolls back and None is returned
AssignError(r) ==
    /\ assign[r].pc \in {"update", "wait", "insert"}
    /\ assign' = [assign EXCEPT ![r] = IdleAssign]
    /\ UNCHANGED <<now, frontVars, flushVars, trainVars, sessionVars, job,
                   ml_training_status, scorer, anomaly_writes>>

\* =========================================================================
\*    FINALIZATION FAILURES  (mqtt/client.py finalize_session, its callers)
\* =========================================================================
\* finalize_session has no try: a store round trip that raises
\* (pool.acquire, get_active_model_for_cow) or a scoring call that raises
\* (engineer_features, score_samples, predict) leaves the function after the
\* pop.  Called from process_mqtt_message the exception reaches the except
\* clause of line 268 and the handler ends without start_new_session.
SubscriberFinalizeError ==
    /\ subscriber.pc = "finalize"
    /\ subscriber' = IdleSubscriber
    /\ UNCHANGED <<now, flushVars, trainVars, requestVars, frontVars, ACTIVE_SESSIONS,
                   session_keys, rfid_ownership, eat_session, anomaly,
                   published, reaper, stream>>

\* called from check_session_timeouts the exception reaches the except
\* clause of session_timeout_checker_task: the rest of the scan is given up
ReaperFinalizeError ==
    /\ reaper.pc = "finalize"
    /\ reaper' = SleepingReaper
    /\ UNCHANGED <<now, flushVars, trainVars, requestVars, frontVars, ACTIVE_SESSIONS,
                   session_keys, rfid_ownership, eat_session, anomaly,
                   published, subscriber, stream>>

\* =========================================================================
\*             TRAINING JOBS  (ml/tasks.py train_model_for_cow)
\* =========================================================================
MinTrainingSessions == 100
\* the number of rows get_sessions_for_training returns for the trailing
\* 30 days
SessionCounts == {9, 10, 99, 100}
JobCows == {"cowA"}

IdleJob == [pc |-> "idle", cow_id |-> NoCow, session_count |-> 0]

\* train_model_for_cow(pool, cow_id) is entered, by periodic_training_task
\* or as the background task of trigger_cow_training, and
\* get_sessions_for_training has returned n rows
TrainingRequested(r, c, n) ==
    /\ job[r].pc = "idle"
    /\ job' = [job EXCEPT ![r] = [pc |-> "fetched", cow_id |-> c,
                                  session_count |-> n]]
    /\ UNCHANGED <<now, frontVars, flushVars, trainVars, sessionVars, assign,
                   ml_training_status, scorer, anomaly_writes>>

\* train_model_for_cow, lines 92-122: too few sessions and the function
\* returns; else the model is fitted and save_new_model opens its
\* transaction
TrainModelForCow(r) ==
    /\ job[r].pc = "fetched"
    /\ IF job[r].session_count < MinTrainingSessions
       THEN /\ job' = [job EXCEPT ![r].pc = "skipped"]
            /\ UNCHANGED txn
       ELSE /\ Cardinality(machine_learning_model) + Cardinality(OpenTxns)
                 < MaxModels
            /\ job' = [job EXCEPT ![r].pc = "saving"]
            /\ txn' = [txn EXCEPT ![r] =
                         [IdleTxn EXCEPT !.pc = "update",
                                         !.cow_id = job[r].cow_id]]
    /\ UNCHANGED <<now, frontVars, flushVars, machine_learning_model, sessionVars,
                   assign, ml_training_status, scorer, anomaly_writes>>

\* save_new_model has returned (committed, or rolled back with its error
\* printed) and train_model_for_cow returns
TrainingSaved(r) ==
    /\ job[r].pc = "saving"
    /\ txn[r].pc = "idle"
    /\ job' = [job EXCEPT ![r].pc = "done"]
    /\ UNCHANGED <<now, frontVars, flushVars, trainVars, sessionVars, assign,
                   ml_training_status, scorer, anomaly_writes>>

\* the caller goes on: the next day of periodic_training_task, the end of
\* the background task
TrainingReturn(r) ==
    /\ job[r].pc \in {"skipped", "done"}
    /\ job' = [job EXCEPT ![r] = IdleJob]
    /\ UNCHANGED <<now, frontVars, flushVars, trainVars, sessionVars, assign,
                   ml_training_status, scorer, anomaly_writes>>

\* =========================================================================
\*          SCORING CYCLE  (ml/tasks.py periodic_prediction_task)
\* =========================================================================
\* main.py lifespan leaves the creation of this task commented out and
\* api/endpoints/ml.py imports a run_prediction_cycle that ml/tasks.py does
\* not define; the cycle is modelled as the function is written, for a
\* process that runs it.
ScoringBatchLimit == 1000
SleepingScorer == [pc |-> "sleep"]

\* the functions services/crud_ml.py defines
CrudMlFunctions == {"get_sessions_for_training", "save_new_model",
                    "get_active_model_for_cow", "get_unscored_sessions",
                    "save_anomaly_scores"}

\* services/crud_ml.py get_unscored_sessions: the sessions without any
\* anomaly row, ORDER BY time_start (ties in any order), LIMIT 1000
GetUnscoredSessions ==
    LET ids == {i \in 1..Len(eat_session) :
                   \A a \in anomaly : a.session_id # eat_session[i].session_id}
        n == Cardinality(ids)
        orders == {q \in [1..n -> ids] :
                     /\ \A i, j \in 1..n : i # j => q[i] # q[j]
                     /\ \A i, j \in 1..n : i < j =>
                          eat_session[q[i]].time_start
                             <= eat_session[q[j]].time_start}
        limit == IF n < ScoringBatchLimit THEN n ELSE ScoringBatchLimit
    IN  {[i \in 1..limit |-> eat_session[q[i]]] : q \in orders}

\* periodic_prediction_task, lines 158-172: the cycle starts; with nothing
\* to score it sleeps again
ScorerFetch ==
    /\ scorer.pc = "sleep"
    /\ \E todo \in GetUnscoredSessions :
          scorer' = IF todo = <<>> THEN SleepingScorer
                    ELSE [pc |-> "score", todo |-> todo, loaded |-> {},
                          results |-> <<>>]
    /\ UNCHANGED <<now, frontVars, flushVars, trainVars, sessionVars, assign, job,
                   ml_training_status, anomaly_writes>>

\* periodic_prediction_task, lines 174-231, one session of the batch: the
\* model of its animal is looked up and loaded unless cached, then
\* crud_ml.get_recent_sessions_before is called; an exception of the body is
\* caught and printed and the session is left out of results_to_save
ScorerScoreOne ==
    /\ scorer.pc = "score"
    /\ scorer.todo # <<>>
    /\ LET session == Head(scorer.todo)
           cow == session.cow_id
           cached == {l \in scorer.loaded : l.cow_id = cow}
           models == GetActiveModelForCow(cow)
           rest == [scorer EXCEPT !.todo = Tail(scorer.todo)]
       IN  \E outcome \in IF cached = {} THEN PredictOutcomes
                           ELSE PredictOutcomes \ {"load_error"} :
             IF cached = {} /\ (models = {} \/ outcome = "load_error")
             THEN scorer' = rest
             ELSE \E m \in IF cached # {} THEN {l.model_id : l \in cached}
                           ELSE {x.model_id : x \in models} :
                    LET pred == Predict({m}, outcome)
                        loaded == scorer.loaded
                                    \cup {[cow_id |-> cow, model_id |-> m]}
                    IN  scorer' =
                          IF "get_recent_sessions_before" \in CrudMlFunctions
                          THEN [rest EXCEPT
                                  !.loaded = loaded,
                                  !.results = Append(@,
                                     [model_id |-> m,
                                      session_id |-> session.session_id,
                                      anomaly_score |-> pred.score,
                                      is_anomaly |-> pred.is_anomaly])]
                          ELSE [rest EXCEPT !.loaded = loaded]
    /\ UNCHANGED <<now, frontVars, flushVars, trainVars, sessionVars, assign, job,
                   ml_training_status, anomaly_writes>>

\* periodic_prediction_task, lines 233-237: the scores are saved, the task
\* sleeps for an hour
ScorerSave ==
    /\ scorer.pc = "score"
    /\ scorer.todo = <<>>
    /\ anomaly' = IF scorer.results # <<>>
                  THEN SaveAnomalyScores(anomaly, scorer.results)
                  ELSE anomaly
    /\ scorer' = SleepingScorer
    /\ UNCHANGED <<now, frontVars, flushVars, trainVars, ACTIVE_SESSIONS, session_keys,
                   rfid_ownership, eat_session, published, subscriber,
                   reaper, stream, assign, job, ml_training_status,
                   anomaly_writes>>

\* =========================================================================
\*        ANOMALY WRITES  (services/crud_ml.py save_anomaly_scores)
\* =========================================================================
\* the callers of save_anomaly_scores and the tuples they pass
Writers == {"finalize_session", "periodic_prediction_task"}
AnomalyTuples ==
    {[model_id |-> m, session_id |-> n, anomaly_score |-> v,
      is_anomaly |-> v = "anomaly"] :
        m \in {1, 2}, n \in {1, 2}, v \in {"normal", "anomaly"}}
MaxWrites == 3

\* one call of save_anomaly_scores with one tuple
SaveAnomalyCall(w, t) ==
    /\ Len(anomaly_writes) < MaxWrites
    /\ anomaly' = SaveAnomalyScores(anomaly, <<t>>)
    /\ anomaly_writes' = Append(anomaly_writes, [writer |-> w, row |-> t])
    /\ UNCHANGED <<now, frontVars, flushVars, trainVars, ACTIVE_SESSIONS, session_keys,
                   rfid_ownership, eat_session, published, subscriber,
                   reaper, stream, assign, job, ml_training_status, scorer>>

\* =========================================================================
\*     MALFORMED MESSAGES  (mqtt/client.py process_mqtt_message, listener)
\* =========================================================================
\* the messages process_mqtt_message cannot turn into a sample:
\*   invalid_json   payload.decode() succeeds, json.loads raises (line 204)
\*   undecodable    payload.decode() raises UnicodeDecodeError (line 204)
\*   no_device_id   the JSON object has no "id" (line 207)
MalformedKinds == {"invalid_json", "undecodable", "no_device_id"}
MaxMalformed == 2

\* the except clause of process_mqtt_message (lines 268-270) prints the
\* error, then prints message.payload.decode(): for a payload that cannot be
\* decoded that second decode raises inside the handler and the exception
\* leaves process_mqtt_message
EscapesHandler(kind) == kind = "undecodable"

\* process_mqtt_message for a malformed message, and for an exception that
\* leaves it the "except Exception" of mqtt_listener_task (lines 335-337):
\* the "async with" block is left, which closes the broker connection, and
\* the task sleeps 5 s without a flush.  The flush triggers the loop evaluates
\* after a call that returns are those of ListenerReceive.
ProcessMalformed(kind) ==
    /\ listener = "connected"
    /\ subscriber.pc = "idle"
    /\ Len(malformed) < MaxMalformed
    /\ malformed' = Append(malformed, kind)
    /\ IF EscapesHandler(kind)
       THEN /\ listener' = "backoff"
            /\ wake_at' = now + ReconnectDelay
       ELSE UNCHANGED <<listener, wake_at>>
    /\ UNCHANGED <<now, MQTT_DATA_BUFFER, last_flush_time, accepted, storeUp,
                   outages, output_sensor, device, rfid_tag, trainVars,
                   sessionVars, requestVars, hubVars, featureVars>>

\* =========================================================================
\*          SHUTDOWN  (main.py lifespan, mqtt/client.py mqtt_listener_task)
\* =========================================================================
\* lifespan after its yield: mqtt_task.cancel().  CancelledError is raised at
\* the await the task is suspended in ("async for message", or sleep(5)); it
\* is not an aiomqtt.MqttError and, being a BaseException, not an Exception:
\* neither except clause of mqtt_listener_task runs and the task ends.
ListenerCancel ==
    /\ listener \in {"connected", "backoff"}
    /\ listener' = "cancelled"
    /\ UNCHANGED <<now, MQTT_DATA_BUFFER, last_flush_time, wake_at, accepted,
                   storeUp, outages, output_sensor, device, rfid_tag,
                   trainVars, sessionVars, requestVars, frontVars>>

\* =========================================================================
\*   EVENT HUBS  (streaming/broker.py StreamingBroker, system_broker.py
\*                SystemBroker)
\* =========================================================================
\* The two classes have the same three methods; streaming_broker is keyed by
\* animal and farmer ids, system_broker by channel names.  Their key spaces
\* are disjoint and one registry holds both.  A queue is named after the
\* response whose request created it.
HubCows == {"cowA"}
FarmerKey == "farmer1"
ML_TRAINING_CHANNEL == "ml_training_status"
HubKeys == HubCows \cup {FarmerKey, ML_TRAINING_CHANNEL}
MaxResponses == 2
MaxEvents == 3
ResponseIds == 1..MaxResponses

\* connect: queue = asyncio.Queue(), no maxsize argument: maxsize is 0
QueueMaxSize == 0

\* variant: a queue of two places
QueueFullAtTwo(q) == Len(q) >= 2

\* asyncio.Queue.full() for the queue connect creates: never, for maxsize 0
QueueFull(q) == QueueMaxSize > 0 /\ Len(q) >= QueueMaxSize

\* connect: self.clients.setdefault(key, []).append(queue)
BrokerConnect(cl, key, q) == [cl EXCEPT ![key] = Append(@, q)]

\* list.remove: the first occurrence goes, ValueError when there is none
RemoveFirst(list, q) ==
    LET at == {i \in 1..Len(list) : list[i] = q}
    IN  IF at = {} THEN list
        ELSE LET i == CHOOSE x \in at : \A y \in at : x <= y
             IN  SubSeq(list, 1, i - 1) \o SubSeq(list, i + 1, Len(list))

\* disconnect: the queue is removed from the list of the key (a missing key
\* or queue is ignored); an empty list stands for a deleted key
BrokerDisconnect(cl, key, q) == [cl EXCEPT ![key] = RemoveFirst(@, q)]

\* for queue in list: await queue.put(message_str)
RECURSIVE PutAll(_, _, _)
PutAll(list, qs, msg) ==
    IF list = <<>> THEN qs
    ELSE PutAll(Tail(list), [qs EXCEPT ![Head(list)] = Append(@, msg)], msg)

\* variant: the message goes to the queues of every key
BrokerBroadcastAllKeys(cl, qs, key, msg) ==
    [q \in DOMAIN qs |->
        IF \E k \in DOMAIN cl : \E i \in 1..Len(cl[k]) : cl[k][i] = q
        THEN Append(qs[q], msg) ELSE qs[q]]

\* broadcast: if key in self.clients, every queue of its list gets the
\* message
BrokerBroadcast(cl, qs, key, msg) == PutAll(cl[key], qs, msg)

\* the events mqtt/client.py broadcasts, by the task that does it
HubEvents == {[by |-> "subscriber", event |-> "sensor_update"],
              [by |-> "reaper", event |-> "session_timeout"]}

\* streaming_broker.broadcast(state['cow_id'], message) from
\* process_mqtt_message, finalize_session or check_session_timeouts.  put
\* returns without suspending when the queue is not full, so a broadcast that
\* finds no full queue is one step of the event loop.
Broadcast(e, key) ==
    /\ Len(hub_log) < MaxEvents
    /\ \A i \in 1..Len(clients[key]) : ~QueueFull(queues[clients[key][i]])
    /\ LET msg == [event |-> e.event, key |-> key, n |-> Len(hub_log) + 1,
                   by |-> e.by]
       IN  /\ queues' = BrokerBroadcast(clients, queues, key, msg)
           /\ hub_log' = Append(hub_log, msg)
    /\ UNCHANGED <<now, flushVars, trainVars, sessionVars, requestVars,
                   malformed, clients, responses, featureVars>>

\* =========================================================================
\*            SSE RESPONSES  (api/endpoints/streaming.py, system.py)
\* =========================================================================
\* the endpoints and the generator each one hands to StreamingResponse
\* (api/endpoints/system.py has a second ml-status endpoint of the same shape)
Endpoints == {"stream_cow_data", "stream_ml_status",
              "stream_farmer_notifications"}
KeysOf(endpoint) ==
    IF endpoint = "stream_cow_data" THEN HubCows
    ELSE IF endpoint = "stream_ml_status" THEN {ML_TRAINING_CHANNEL}
    ELSE {FarmerKey}

NoResponse == [pc |-> "none", endpoint |-> "", key |-> "", since |-> 0,
               frames |-> <<>>]

\* what each generator yields before its loop
FirstFrames(endpoint, key) ==
    IF endpoint = "stream_cow_data" THEN <<>>
    ELSE IF endpoint = "stream_ml_status"
    THEN <<[event |-> "connected", channel |-> key]>>
    ELSE <<[event |-> "connected", channel |-> "farmer_alerts"]>>

\* variant: the newest event is taken first
QueueGetLast(q) == [item |-> q[Len(q)], rest |-> SubSeq(q, 1, Len(q) - 1)]

\* queue.get() on a queue that holds something
QueueGet(q) == [item |-> Head(q), rest |-> Tail(q)]

\* the finally clause of each generator: _cow_stream_generator and
\* _ml_stream_generator call disconnect, _farmer_stream_generator has "pass"
Finally(endpoint, cl, key, q) ==
    IF endpoint = "stream_farmer_notifications" THEN cl
    ELSE BrokerDisconnect(cl, key, q)

\* the endpoint function: connect(key), then StreamingResponse runs the
\* generator to its first wait on the queue
StreamOpen(r, endpoint, key) ==
    /\ responses[r].pc = "none"
    /\ \A o \in ResponseIds : o < r => responses[o].pc # "none"
    /\ clients' = BrokerConnect(clients, key, r)
    /\ responses' = [responses EXCEPT ![r] =
            [pc |-> "waiting", endpoint |-> endpoint, key |-> key,
             since |-> Len(hub_log), frames |-> FirstFrames(endpoint, key)]]
    /\ UNCHANGED <<now, flushVars, trainVars, sessionVars, requestVars,
                   malformed, queues, hub_log, featureVars>>

\* one turn of the generator's loop with the client still there:
\* message_str = await queue.get(); yield the frame
StreamDeliver(r) ==
    /\ responses[r].pc = "waiting"
    /\ queues[r] # <<>>
    /\ LET got == QueueGet(queues[r])
       IN  /\ queues' = [queues EXCEPT ![r] = got.rest]
           /\ responses' = [responses EXCEPT ![r].frames = Append(@, got.item)]
    /\ UNCHANGED <<now, flushVars, trainVars, sessionVars, requestVars,
                   malformed, clients, hub_log, featureVars>>

\* request.is_disconnected() is true and the loop breaks: the animal and
\* farmer generators look after queue.get() and drop the event they took, the
\* ml-status generator looks before the wait; then the finally clause
StreamLoopExit(r) ==
    /\ responses[r].pc = "waiting"
    /\ IF responses[r].endpoint = "stream_ml_status"
       THEN UNCHANGED queues
       ELSE /\ queues[r] # <<>>
            /\ queues' = [queues EXCEPT ![r] = QueueGet(@).rest]
    /\ clients' = Finally(responses[r].endpoint, clients, responses[r].key, r)
    /\ responses' = [responses EXCEPT ![r].pc = "ended"]
    /\ UNCHANGED <<now, flushVars, trainVars, sessionVars, requestVars,
                   malformed, hub_log, featureVars>>

\* the generator is cancelled in its wait (the client went away, the server
\* shuts down) or an exception is raised in it: except CancelledError, then
\* the finally clause
StreamCancel(r) ==
    /\ responses[r].pc \in {"waiting", "gone"}
    /\ clients' = Finally(responses[r].endpoint, clients, responses[r].key, r)
    /\ responses' = [responses EXCEPT ![r].pc = "ended"]
    /\ UNCHANGED <<now, flushVars, trainVars, sessionVars, requestVars,
                   malformed, queues, hub_log, featureVars>>

\* the client closes the connection while the generator waits in
\* queue.get(): nothing in the generator runs
ClientDisconnect(r) ==
    /\ responses[r].pc = "waiting"
    /\ responses' = [responses EXCEPT ![r].pc = "gone"]
    /\ UNCHANGED <<now, flushVars, trainVars, sessionVars, requestVars,
                   malformed, clients, queues, hub_log, featureVars>>

\* an event arrives for a response whose client is gone: queue.get()
\* returns, the animal generator finds is_disconnected() true and breaks;
\* the ml-status generator yields the frame, finds it true at the head of
\* its loop and breaks; then the finally clause
StreamWakeGone(r) ==
    /\ responses[r].pc = "gone"
    /\ queues[r] # <<>>
    /\ LET got == QueueGet(queues[r])
       IN  /\ queues' = [queues EXCEPT ![r] = got.rest]
           /\ responses' = [responses EXCEPT
                  ![r].pc = "ended",
                  ![r].frames = IF responses[r].endpoint = "stream_ml_status"
                                THEN Append(@, got.item) ELSE @]
    /\ clients' = Finally(responses[r].endpoint, clients, responses[r].key, r)
    /\ UNCHANGED <<now, flushVars, trainVars, sessionVars, requestVars,
                   malformed, hub_log, featureVars>>

\* =========================================================================
\*           FEATURE EXTRACTOR  (ml/tasks.py engineer_features)
\* =========================================================================
\* instants are seconds from a Monday 00:00; a quotient is kept as the pair
\* of its terms, sine and cosine by their argument in turns
MaxFeatureSessions == 2
WindowSize == 10
Frac(n, d) == [num |-> n, den |-> d]
\* time_start.dt.hour, time_start.dt.weekday (Monday is 0)
HourOf(t) == (t \div 3600) % 24
WeekdayOf(t) == (t \div 86400) % 7

\* the session records engineer_features is given
FeatureSessions ==
    {[time_start |-> t, time_end |-> t + d, weight_start |-> 60,
      weight_end |-> w, average_temp |-> 20] :
        t \in {0, 86400 + 6 * 3600},
        d \in {0, 60, 90}, w \in {50, 60}}
FeatureInputs ==
    UNION {[1..n -> FeatureSessions] : n \in 1..MaxFeatureSessions}
NotComputed == <<>>

\* sum of f over the rows lo..hi
RECURSIVE SumOver(_, _, _)
SumOver(f, lo, hi) == IF lo > hi THEN 0 ELSE f[lo] + SumOver(f, lo + 1, hi)

\* (x - ma) / ma for ma = shift(1).rolling(window, min_periods=1).mean() at
\* row i: the mean of the up to window rows before row i; NaN (no row
\* before) and inf (a mean of 0) become 0 through replace and fillna(0)
Deviation(f, i, window) ==
    LET lo == IF i - window < 1 THEN 1 ELSE i - window
        n == i - lo
        sum == SumOver(f, lo, i - 1)
    IN  IF n = 0 \/ sum = 0 THEN Frac(0, 1)
        ELSE Frac(n * f[i] - sum, sum)

\* engineer_features(sessions, window_size): df[feature_columns].values, one
\* row per session, each value under the name of its column
EngineerFeatures(sessions, window_size) ==
    LET duration_sec == [i \in 1..Len(sessions) |->
                            sessions[i].time_end - sessions[i].time_start]
        total_consumption == [i \in 1..Len(sessions) |->
                            sessions[i].weight_start - sessions[i].weight_end]
    IN  [i \in 1..Len(sessions) |->
          <<[name |-> "duration_min", value |-> Frac(duration_sec[i], 60)],
            [name |-> "total_consumption", value |-> total_consumption[i]],
            [name |-> "rate_per_min",
             value |-> IF duration_sec[i] > 0
                       THEN Frac(total_consumption[i] * 60, duration_sec[i])
                       ELSE Frac(0, 1)],
            [name |-> "hour_sin",
             value |-> [fn |-> "sin",
                        turns |-> Frac(HourOf(sessions[i].time_start), 24)]],
            [name |-> "hour_cos",
             value |-> [fn |-> "cos",
                        turns |-> Frac(HourOf(sessions[i].time_start), 24)]],
            [name |-> "day_of_week",
             value |-> WeekdayOf(sessions[i].time_start)],
            [name |-> "consumption_deviation",
             value |-> Deviation(total_consumption, i, window_size)],
            [name |-> "duration_deviation",
             value |-> Deviation(duration_sec, i, window_size)]>>]

\* a caller (realtime_predict_and_save with one session, train_model_for_cow
\* with the sessions of an animal) gets the array
EngineerFeaturesCall ==
    /\ feature_output = NotComputed
    /\ feature_output' = EngineerFeatures(feature_input, WindowSize)
    /\ UNCHANGED <<now, flushVars, trainVars, sessionVars, requestVars,
                   malformed, hubVars, feature_input>>

\* =========================================================================
\*                            SPECIFICATIONS
\* =========================================================================
InitTrainPart ==
    /\ machine_learning_model = {}
    /\ txn = [r \in Runs |-> IdleTxn]

\* T1 is owned by cowA and T2 by cowB through open windows; T3 was owned by
\* cowA and its window is closed
InitSessionPart ==
    /\ ACTIVE_SESSIONS = [d \in Devices |-> NoSession]
    /\ session_keys = <<>>
    /\ rfid_ownership =
         {[own_id |-> 1, rfid_id |-> "T1", cow_id |-> "cowA",
           time_start |-> 0, time_end |-> NoNumber],
          [own_id |-> 2, rfid_id |-> "T2", cow_id |-> "cowB",
           time_start |-> 0, time_end |-> NoNumber],
          [own_id |-> 3, rfid_id |-> "T3", cow_id |-> "cowA",
           time_start |-> 0, time_end |-> 0]}
    /\ eat_session = <<>>
    /\ anomaly = {}
    /\ published = <<>>
    /\ subscriber = IdleSubscriber
    /\ reaper = SleepingReaper
    /\ stream = <<>>

\* no request is being served, no job is running, nothing was published
InitRequestPart ==
    /\ assign = [r \in Callers |-> IdleAssign]
    /\ job = [r \in Runs |-> IdleJob]
    /\ ml_training_status = <<>>
    /\ scorer = SleepingScorer
    /\ anomaly_writes = <<>>

\* no malformed message was handled, no SSE response is open, nothing was
\* broadcast, engineer_features was not called
InitHubPart ==
    /\ clients = [k \in HubKeys |-> <<>>]
    /\ queues = [r \in ResponseIds |-> <<>>]
    /\ responses = [r \in ResponseIds |-> NoResponse]
    /\ hub_log = <<>>

InitFrontPart ==
    /\ malformed = <<>>
    /\ InitHubPart
    /\ feature_input = <<>>
    /\ feature_output = NotComputed

InitFlush ==
    /\ now = 0
    /\ InitFlushPart /\ InitTrainPart /\ InitSessionPart /\ InitRequestPart
    /\ InitFrontPart

NextFlush ==
    \/ ListenerReceive
    \/ ListenerDrop
    \/ ListenerReconnect
    \/ StoreFail
    \/ StoreRecover
    \/ FlushTick

SpecFlush == InitFlush /\ [][NextFlush]_vars

\* The same loop on a store that always accepts writes, with the scheduling
\* the event loop gives: a sleeping listener wakes up and time passes.
\* Broker messages and connection drops are the environment's and carry no
\* fairness.
NextFlushUp ==
    \/ ListenerReceive
    \/ ListenerDrop
    \/ ListenerReconnect
    \/ FlushTick

FairSpecFlush ==
    /\ InitFlush
    /\ [][NextFlushUp]_vars
    /\ WF_vars(ListenerReconnect)
    /\ WF_vars(FlushTick)

InitTrain ==
    /\ now = 0
    /\ InitFlushPart /\ InitTrainPart /\ InitSessionPart /\ InitRequestPart
    /\ InitFrontPart

NextTrain ==
    \/ \E r \in Runs, c \in TrainCows : SaveBegin(r, c)
    \/ \E r \in Runs : SaveUpdate(r)
    \/ \E r \in Runs : SaveUpdateResume(r)
    \/ \E r \in Runs : SaveCommit(r)
    \/ \E r \in Runs : SaveError(r)

SpecTrain == InitTrain /\ [][NextTrain]_vars

\* the session state machine: cowA has an active model, cowB has none and
\* there is no model in the null bucket
Init ==
    /\ now = 0
    /\ InitFlushPart
    /\ machine_learning_model =
          {[model_id |-> 1, cow_id |-> "cowA", is_active |-> TRUE]}
    /\ txn = [r \in Runs |-> IdleTxn]
    /\ InitSessionPart
    /\ InitRequestPart
    /\ InitFrontPart

Next ==
    \/ \E dev \in Devices, s \in Samples :
          ProcessMqttMessage(dev, s.rfid, s.w, s.temp, s.ts)
    \/ SubscriberFinalize
    \/ StartNewSession
    \/ ReaperWake
    \/ CheckSessionTimeouts
    \/ ReaperFinalize
    \/ ReaperSleep
    \/ Tick

Spec == Init /\ [][Next]_vars

\* the session state machine when a finalization can fail
NextFaulty ==
    \/ \E dev \in Devices, s \in Samples :
          ProcessMqttMessage(dev, s.rfid, s.w, s.temp, s.ts)
    \/ SubscriberFinalize
    \/ StartNewSession
    \/ ReaperWake
    \/ CheckSessionTimeouts
    \/ ReaperFinalize
    \/ ReaperSleep
    \/ Tick
    \/ SubscriberFinalizeError
    \/ ReaperFinalizeError

SpecFaulty == Init /\ [][NextFaulty]_vars

\* the session state machine of one feeder visited by the animal of T1,
\* its samples stamped by the server, while a request reassigns T1
OwnSamples ==
    {s \in Samples : s.rfid \in {"T1", NoTag} /\ s.w # NoNumber
                                              /\ s.ts = NoNumber}

NextOwn ==
    \/ \E dev \in Devices, s \in OwnSamples :
          ProcessMqttMessage(dev, s.rfid, s.w, s.temp, s.ts)
    \/ SubscriberFinalize
    \/ StartNewSession
    \/ ReaperWake
    \/ CheckSessionTimeouts
    \/ ReaperFinalize
    \/ ReaperSleep
    \/ Tick
    \/ \E cow \in AssignCows : AssignBegin("a1", "T1", cow)
    \/ AssignUpdate("a1")
    \/ AssignCommit("a1")
    \/ AssignError("a1")

SpecOwn == Init /\ [][NextOwn]_vars

\* concurrent tag assignments on the ownership table
NextAssign ==
    \/ \E r \in Callers, rfid \in AssignTags, cow \in AssignCows :
          AssignBegin(r, rfid, cow)
    \/ \E r \in Callers : AssignUpdate(r)
    \/ \E r \in Callers : AssignUpdateResume(r)
    \/ \E r \in Callers : AssignCommit(r)
    \/ \E r \in Callers : AssignError(r)

SpecAssign == InitTrain /\ [][NextAssign]_vars

\* the training runs from their entry into train_model_for_cow
NextJob ==
    \/ \E r \in Runs, c \in JobCows, n \in SessionCounts :
          TrainingRequested(r, c, n)
    \/ \E r \in Runs : TrainModelForCow(r)
    \/ \E r \in Runs : SaveUpdate(r)
    \/ \E r \in Runs : SaveUpdateResume(r)
    \/ \E r \in Runs : SaveCommit(r)
    \/ \E r \in Runs : SaveError(r)
    \/ \E r \in Runs : TrainingSaved(r)
    \/ \E r \in Runs : TrainingReturn(r)

SpecJob == InitTrain /\ [][NextJob]_vars

\* the scoring cycle next to the training runs: two sessions, of cowA and of
\* cowB, were persisted before any model was trained and have no anomaly row
InitScoring ==
    /\ now = 0
    /\ InitFlushPart
    /\ InitTrainPart
    /\ ACTIVE_SESSIONS = [d \in Devices |-> NoSession]
    /\ session_keys = <<>>
    /\ rfid_ownership = {}
    /\ eat_session =
         <<[session_id |-> 1, device_id |-> "d1", rfid_id |-> "T1",
            cow_id |-> "cowA", time_start |-> 0, time_end |-> 30,
            weight_start |-> 60, weight_end |-> 50,
            average_temp |-> [num |-> 20, den |-> 1]],
           [session_id |-> 2, device_id |-> "d1", rfid_id |-> "T2",
            cow_id |-> "cowB", time_start |-> 0, time_end |-> 30,
            weight_start |-> 60, weight_end |-> 55,
            average_temp |-> [num |-> 20, den |-> 1]]>>
    /\ anomaly = {}
    /\ published = <<>>
    /\ subscriber = IdleSubscriber
    /\ reaper = SleepingReaper
    /\ stream = <<>>
    /\ InitRequestPart
    /\ InitFrontPart

NextScoring ==
    \/ \E r \in Runs, c \in TrainCows : SaveBegin(r, c)
    \/ \E r \in Runs : SaveUpdate(r)
    \/ \E r \in Runs : SaveUpdateResume(r)
    \/ \E r \in Runs : SaveCommit(r)
    \/ \E r \in Runs : SaveError(r)
    \/ ScorerFetch
    \/ ScorerScoreOne
    \/ ScorerSave

\* the event loop runs a task that is ready: each step of the cycle is taken
FairSpecScoring ==
    /\ InitScoring
    /\ [][NextScoring]_vars
    /\ WF_vars(ScorerFetch)
    /\ WF_vars(ScorerScoreOne)
    /\ WF_vars(ScorerSave)

\* save_anomaly_scores applied to the tuples its callers pass
NextAnomaly ==
    \E w \in Writers, t \in AnomalyTuples : SaveAnomalyCall(w, t)

SpecAnomaly == InitTrain /\ [][NextAnomaly]_vars

\* the subscriber's message handling with malformed messages among the
\* samples of one feeder; the listener reconnects after its sleep
NextIngest ==
    \/ /\ listener = "connected"
       /\ \E dev \in Devices, s \in OwnSamples :
             ProcessMqttMessage(dev, s.rfid, s.w, s.temp, s.ts)
    \/ SubscriberFinalize
    \/ StartNewSession
    \/ \E kind \in MalformedKinds : ProcessMalformed(kind)
    \/ ListenerReconnect
    \/ Tick

SpecIngest == Init /\ [][NextIngest]_vars

\* the listener loop on a store that accepts writes, until the server shuts
\* down
NextShutdown ==
    \/ ListenerReceive
    \/ ListenerDrop
    \/ ListenerReconnect
    \/ FlushTick
    \/ ListenerCancel

SpecShutdown == InitFlush /\ [][NextShutdown]_vars

\* the hubs, their publishers and the SSE responses
NextHub ==
    \/ \E r \in ResponseIds, endpoint \in Endpoints :
          \E key \in KeysOf(endpoint) : StreamOpen(r, endpoint, key)
    \/ \E r \in ResponseIds : StreamDeliver(r)
    \/ \E r \in ResponseIds : StreamLoopExit(r)
    \/ \E r \in ResponseIds : StreamCancel(r)
    \/ \E e \in HubEvents, key \in HubCows : Broadcast(e, key)

SpecHub == InitTrain /\ [][NextHub]_vars

\* the responses of the animal and ml-status endpoints whose clients can go
\* away at any time.  The event loop runs a generator whose queue holds an
\* event; publications, client disconnects and cancellations are the
\* environment's and carry no fairness.
NextStream ==
    \/ \E r \in ResponseIds,
          endpoint \in {"stream_cow_data", "stream_ml_status"} :
          \E key \in KeysOf(endpoint) : StreamOpen(r, endpoint, key)
    \/ \E r \in ResponseIds : ClientDisconnect(r)
    \/ \E r \in ResponseIds : StreamDeliver(r)
    \/ \E r \in ResponseIds : StreamWakeGone(r)
    \/ \E r \in ResponseIds : StreamCancel(r)
    \/ \E e \in HubEvents, key \in HubCows : Broadcast(e, key)

FairSpecStream ==
    /\ InitTrain
    /\ [][NextStream]_vars
    /\ \A r \in ResponseIds : WF_vars(StreamDeliver(r))
    /\ \A r \in ResponseIds : WF_vars(StreamWakeGone(r))

\* engineer_features applied to each list of sessions
InitFeatures ==
    /\ now = 0
    /\ InitFlushPart /\ InitTrainPart /\ InitSessionPart /\ InitRequestPart
    /\ malformed = <<>>
    /\ InitHubPart
    /\ feature_input \in FeatureInputs
    /\ feature_output = NotComputed

NextFeatures == EngineerFeaturesCall

SpecFeatures == InitFeatures /\ [][NextFeatures]_vars

\* =========================================================================
\*        SESSION TEMPERATURES  (mqtt/client.py, the temp field)
\* =========================================================================
\* payload.get("temp"): absent, 0 or a positive reading
Temperatures == {NoNumber, 0, 20}
\* the samples of one feeder visited by the animal of T1, stamped by the
\* server, with each temperature
TempSamples ==
    {[rfid |-> "T1", w |-> w, temp |-> t, ts |-> NoNumber] :
        w \in {55, 60}, t \in Temperatures}
    \cup {[rfid |-> NoTag, w |-> 60, temp |-> 20, ts |-> NoNumber]}

NextTemp ==
    \/ \E dev \in Devices, s \in TempSamples :
          ProcessMqttMessage(dev, s.rfid, s.w, s.temp, s.ts)
    \/ SubscriberFinalize
    \/ StartNewSession

SpecTemp == Init /\ [][NextTemp]_vars

\* =========================================================================
\*       SENSOR HISTORY  (services/crud_sensor.py get_sensor_history)
\* =========================================================================
HistoryLimit == 1000

\* get_sensor_history: the rows of output_sensor joined with the ownership
\* windows of the animal that hold the row's tag and contain its instant
\* (both ends of a closed window included), inside the requested range, the
\* latest HistoryLimit of them.  A result row is the pair of the raw row's
\* position and the window; rows of equal instant at the cut are all kept
\* (their order is the store's choice).
GetSensorHistory(cow_id, start_time, end_time) ==
    LET joined ==
            {m \in (1..Len(output_sensor)) \X rfid_ownership :
                LET t1 == output_sensor[m[1]]
                    t2 == m[2]
                IN  /\ t1.rfid_id = t2.rfid_id
                    /\ t2.cow_id = cow_id
                    /\ t1.timestamp >= t2.time_start
                    /\ (t1.timestamp <= t2.time_end \/ t2.time_end = NoNumber)
                    /\ t1.timestamp >= start_time
                    /\ t1.timestamp <= end_time}
        Later(a, b) ==
            output_sensor[a[1]].timestamp > output_sensor[b[1]].timestamp
    IN  {m \in joined :
            Cardinality({x \in joined : Later(x, m)}) < HistoryLimit}

\* the raw samples of one feeder reach the table while a request reassigns
\* the tag T1
NextHistory ==
    \/ ListenerReceive
    \/ ListenerDrop
    \/ ListenerReconnect
    \/ FlushTick
    \/ \E cow \in AssignCows : AssignBegin("a1", "T1", cow)
    \/ AssignUpdate("a1")
    \/ AssignCommit("a1")

SpecHistory == InitFlush /\ [][NextHistory]_vars

\* =========================================================================
\*   FINALIZATION NEXT TO TRAINING  (mqtt/client.py finalize_session)
\* =========================================================================
\* finalize_session reads the animal's active model twice, each time with a
\* round trip to the store: inside realtime_predict_and_save (line 85), which
\* scores with it, and again at line 138 for the model id of the anomaly row.
\* A training run's save_new_model can commit between the two.

\* realtime_predict_and_save called from process_mqtt_message's
\* finalize_session: the first lookup and the scoring; scored_by is the id
\* of the model that scored (NoNumber when None was returned as the score)
SubscriberPredict(outcome) ==
    /\ subscriber.pc = "finalize"
    /\ LET models == GetActiveModelForCow(subscriber.fin.st.cow_id)
           scorers == IF models = {} \/ outcome = "load_error"
                      THEN {NoNumber}
                      ELSE {m.model_id : m \in models}
       IN  \E by \in scorers :
             subscriber' = [pc |-> "store", msg |-> subscriber.msg,
                            fin |-> subscriber.fin,
                            pred |-> Predict(models, outcome),
                            scored_by |-> by]
    /\ UNCHANGED <<now, flushVars, trainVars, requestVars, frontVars,
                   ACTIVE_SESSIONS, session_keys, rfid_ownership, eat_session,
                   anomaly, published, reaper, stream>>

\* finalize_session, lines 138-168: the second lookup, create_eat_session,
\* the anomaly row under the model id of the second lookup, session_end
SubscriberStore ==
    /\ subscriber.pc = "store"
    /\ LET fin == subscriber.fin
           st == fin.st
           pred == subscriber.pred
           models == GetActiveModelForCow(st.cow_id)
           inserted == ~SessionCanceled(st.weight_start, fin.last_weight)
           sid == Len(eat_session) + 1
       IN  /\ eat_session' =
                 IF inserted
                 THEN Append(eat_session,
                        [session_id |-> sid, device_id |-> fin.device_id,
                         rfid_id |-> st.rfid_id, cow_id |-> st.cow_id,
                         time_start |-> st.time_start,
                         time_end |-> fin.last_timestamp,
                         weight_start |-> st.weight_start,
                         weight_end |-> fin.last_weight,
                         average_temp |-> AverageTemp(st)])
                 ELSE eat_session
           /\ IF SavesAnomaly(inserted, models)
              THEN \E m \in models :
                     anomaly' = SaveAnomalyScores(anomaly,
                         <<[model_id |-> m.model_id, session_id |-> sid,
                            anomaly_score |-> pred.score,
                            is_anomaly |-> pred.is_anomaly]>>)
              ELSE anomaly' = anomaly
           /\ published' = Append(published,
                 [key |-> st.cow_id, event |-> "session_end",
                  device_id |-> fin.device_id,
                  timestamp |-> fin.last_timestamp,
                  average_temp |-> AverageTemp(st),
                  anomaly |-> pred.is_anomaly, score |-> pred.score])
    /\ subscriber' = IF StartCondition(subscriber.msg.rfid, subscriber.msg.w)
                     THEN [pc |-> "start", msg |-> subscriber.msg]
                     ELSE IdleSubscriber
    /\ UNCHANGED <<now, flushVars, trainVars, requestVars, frontVars,
                   ACTIVE_SESSIONS, session_keys, rfid_ownership, reaper,
                   stream>>

\* the artifacts of the model table load: what scoring returns
LoadedOutcomes == {"normal", "anomaly"}

\* one feeder visited by the animal of T1 while the periodic training run
\* saves new models for that animal
NextRace ==
    \/ \E dev \in Devices, s \in OwnSamples :
          ProcessMqttMessage(dev, s.rfid, s.w, s.temp, s.ts)
    \/ \E outcome \in LoadedOutcomes : SubscriberPredict(outcome)
    \/ SubscriberStore
    \/ StartNewSession
    \/ SaveBegin("periodic", "cowA")
    \/ SaveUpdate("periodic")
    \/ SaveCommit("periodic")

SpecRace == Init /\ [][NextRace]_vars

\* =========================================================================
\*     THE REAPER OVER SEVERAL FEEDERS  (mqtt/client.py, lines 272-305)
\* =========================================================================
ReapDevices == {"d1", "d2"}
\* the feeders whose payloads carry "ts" as an ISO string without a UTC
\* offset: datetime.fromisoformat (line 216) returns a naive datetime, and
\* it becomes the session's last_consumption_time
NaiveDevices == {"d1"}
\* d1 stamps its samples itself, d2 leaves the stamp to the server
ReapSamples ==
    {[device_id |-> "d1", rfid |-> "T1", w |-> w, temp |-> 20, ts |-> 0] :
        w \in {50, 55}}
    \cup {[device_id |-> "d2", rfid |-> "T2", w |-> w, temp |-> 20,
           ts |-> NoNumber] : w \in {50, 55}}

\* the reaper is about to look at a live session of such a feeder
NaiveHead ==
    /\ reaper.pc = "scan"
    /\ reaper.keys # <<>>
    /\ Head(reaper.keys) \in NaiveDevices
    /\ ACTIVE_SESSIONS[Head(reaper.keys)] # NoSession

\* check_session_timeouts, line 281: now is an aware datetime
\* (datetime.now().astimezone(), line 273); subtracting a naive
\* last_consumption_time raises TypeError, which leaves the for loop and is
\* caught in session_timeout_checker_task (line 304): the scan is given up
\* and the session stays in ACTIVE_SESSIONS
ReaperCheckError ==
    /\ NaiveHead
    /\ reaper' = SleepingReaper
    /\ UNCHANGED <<now, flushVars, trainVars, requestVars, frontVars,
                   ACTIVE_SESSIONS, session_keys, rfid_ownership, eat_session,
                   anomaly, published, subscriber, stream>>

InitReap ==
    /\ now = 0
    /\ InitFlushPart
    /\ machine_learning_model =
          {[model_id |-> 1, cow_id |-> "cowA", is_active |-> TRUE]}
    /\ txn = [r \in Runs |-> IdleTxn]
    /\ ACTIVE_SESSIONS = [d \in ReapDevices |-> NoSession]
    /\ session_keys = <<>>
    /\ rfid_ownership = {[own_id |-> 1, rfid_id |-> "T1", cow_id |-> "cowA",
                          time_start |-> 0, time_end |-> NoNumber],
                         [own_id |-> 2, rfid_id |-> "T2", cow_id |-> "cowB",
                          time_start |-> 0, time_end |-> NoNumber]}
    /\ eat_session = <<>>
    /\ anomaly = {}
    /\ published = <<>>
    /\ subscriber = IdleSubscriber
    /\ reaper = SleepingReaper
    /\ stream = <<>>
    /\ InitRequestPart
    /\ InitFrontPart

\* two feeders, each visited by one animal, and the reaper; a finalization
\* can fail
NextReap ==
    \/ \E s \in ReapSamples :
          ProcessMqttMessage(s.device_id, s.rfid, s.w, s.temp, s.ts)
    \/ StartNewSession
    \/ ReaperWake
    \/ ~NaiveHead /\ CheckSessionTimeouts
    \/ ReaperCheckError
    \/ ReaperFinalize
    \/ ReaperFinalizeError
    \/ ReaperSleep
    \/ Tick

SpecReap == InitReap /\ [][NextReap]_vars

\* =========================================================================
\*                                CLAIMS
\* =========================================================================
InBuffer(n) == \E i \in 1..Len(MQTT_DATA_BUFFER) : MQTT_DATA_BUFFER[i].seq = n
InTable(n) == \E i \in 1..Len(output_sensor) : output_sensor[i].seq = n

\* C1: every sample accepted so far is still held in MQTT_DATA_BUFFER or has
\* been inserted into the raw-sample table: a failed store write of a flush
\* puts the batch back and no sample is dropped.
C1_NoSampleDropped ==
    \A n \in 1..accepted : InBuffer(n) \/ InTable(n)

\* C2: every sample appended to the raw buffer is eventually inserted into
\* the raw-sample table when the store accepts writes and the process keeps
\* running, also when no further broker message arrives.
C2_EventuallyInserted ==
    \A n \in 1..MaxFlushMsgs : (accepted >= n) ~> InTable(n)

\* C3: in every reachable state of the model table each animal, and the
\* null-animal bucket, has at most one active model, also when two training
\* runs for the same animal interleave their save_new_model transactions.
C3_AtMostOneActive ==
    \A c \in TrainCows : Cardinality(ActiveModels(c)) <= 1

\* ------------------------------------------------------- session helpers
\* the animals that own a tag through an open window
OpenOwners(rfid) ==
    {o.cow_id : o \in {x \in rfid_ownership :
                          x.rfid_id = rfid /\ x.time_end = NoNumber}}

\* the step hands one more sample to process_mqtt_message
SampleStep == Len(stream') = Len(stream) + 1
Sample == stream'[Len(stream')]

\* the step ends the store round trips of a finalization by the subscriber,
\* by the reaper
SubscriberFinishes == subscriber.pc = "finalize" /\ subscriber'.pc # "finalize"
ReaperFinishes == reaper.pc = "finalize" /\ reaper'.pc # "finalize"

\* the step inserts exactly the session row of the popped state st on dev,
\* with the given end weight and end instant
InsertsRow(dev, st, weight_end, time_end) ==
    /\ Len(eat_session') = Len(eat_session) + 1
    /\ SubSeq(eat_session', 1, Len(eat_session)) = eat_session
    /\ LET row == eat_session'[Len(eat_session')]
       IN  /\ row.device_id = dev
           /\ row.rfid_id = st.rfid_id
           /\ row.cow_id = st.cow_id
           /\ row.time_start = st.time_start
           /\ row.weight_start = st.weight_start
           /\ row.time_end = time_end
           /\ row.weight_end = weight_end

\* the step broadcasts exactly one event, of the given kind, on the channel
\* of the animal of st
BroadcastsOne(kind, dev, st) ==
    /\ Len(published') = Len(published) + 1
    /\ SubSeq(published', 1, Len(published)) = published
    /\ LET e == published'[Len(published')]
       IN  e.event = kind /\ e.key = st.cow_id /\ e.device_id = dev

\* C4: every session row inserted by finalize_session has its end instant
\* strictly after its start instant and its end weight strictly below its
\* start weight, whatever the client timestamps of the stream.
C4_RowsOrdered ==
    \A i \in 1..Len(eat_session) :
        /\ eat_session[i].time_end > eat_session[i].time_start
        /\ eat_session[i].weight_end < eat_session[i].weight_start

\* C5: a finalization whose end weight is greater than or equal to the start
\* weight discards the candidate: the step inserts no session row, inserts
\* no anomaly row and broadcasts no event.
C5_CanceledLeavesNoTrace ==
    [][ /\ IF SubscriberFinishes
           THEN subscriber.fin.last_weight >= subscriber.fin.st.weight_start
                => UNCHANGED <<eat_session, anomaly, published>>
           ELSE TRUE
        /\ IF ReaperFinishes
           THEN reaper.fin.last_weight >= reaper.fin.st.weight_start
                => UNCHANGED <<eat_session, anomaly, published>>
           ELSE TRUE ]_vars

\* C6: a session appears in the live map of a device only for a sample of
\* that device that carries a tag, whose tag is owned by the session's animal
\* through an open window, and whose weight is strictly greater than
\* WEIGHT_START_THRESHOLD.
C6_OpensOnlyWhenAllowed ==
    [][ \A d \in Devices :
          (ACTIVE_SESSIONS[d] = NoSession /\ ACTIVE_SESSIONS'[d] # NoSession)
          => /\ Len(stream) > 0
             /\ LET m == stream[Len(stream)]
                    n == ACTIVE_SESSIONS'[d]
                IN  /\ m.device_id = d
                    /\ m.rfid # NoTag
                    /\ n.rfid_id = m.rfid
                    /\ n.cow_id \in OpenOwners(m.rfid)
                    /\ m.w > WEIGHT_START_THRESHOLD ]_vars

\* a session is open although the first sample of the stream, at or below
\* the threshold, opened none
C6_Witness ==
    /\ Len(stream) >= 2
    /\ stream[1].rfid = "T1"
    /\ stream[1].w = WEIGHT_START_THRESHOLD
    /\ \E d \in Devices : ACTIVE_SESSIONS[d] # NoSession

\* the sample m is a tag swap for the session st: another tag, owned by
\* another animal, with a weight above the start threshold
IsTagSwap(m, st) ==
    /\ st # NoSession
    /\ m.rfid # NoTag
    /\ m.rfid # st.rfid_id
    /\ OpenOwners(m.rfid) # {}
    /\ st.cow_id \notin OpenOwners(m.rfid)
    /\ m.w > WEIGHT_START_THRESHOLD

\* C7: a tag-swap sample takes the session of T out of the live map in the
\* step that handles the sample; its finalization broadcasts session_end for
\* the animal of T and inserts its row when weight was consumed; then a
\* session for T' is opened whose tag, animal, start instant and start weight
\* are those of the sample.
C7_TagSwap ==
    [][ /\ SampleStep /\ IsTagSwap(Sample, ACTIVE_SESSIONS[Sample.device_id])
           => /\ ACTIVE_SESSIONS'[Sample.device_id] = NoSession
              /\ subscriber'.pc = "finalize"
              /\ subscriber'.msg = Sample
              /\ subscriber'.fin.st = ACTIVE_SESSIONS[Sample.device_id]
        /\ IF SubscriberFinishes
           THEN IsTagSwap(subscriber.msg, subscriber.fin.st)
                => LET st == subscriber.fin.st
                       dev == subscriber.fin.device_id
                   IN  /\ BroadcastsOne("session_end", dev, st)
                       /\ st.last_weight < st.weight_start
                          => InsertsRow(dev, st, st.last_weight, st.last_seen)
                       /\ subscriber'.pc = "start"
                       /\ subscriber'.msg = subscriber.msg
           ELSE TRUE
        /\ IF subscriber.pc = "start" /\ subscriber'.pc # "start"
           THEN LET m == subscriber.msg
                    n == ACTIVE_SESSIONS'[m.device_id]
                IN  OpenOwners(m.rfid) # {}
                    => /\ n # NoSession
                       /\ n.rfid_id = m.rfid
                       /\ n.cow_id \in OpenOwners(m.rfid)
                       /\ n.time_start = m.ts
                       /\ n.weight_start = m.w
                       /\ subscriber'.pc = "idle"
           ELSE TRUE ]_vars

\* the swap from T1 to T2 is complete: the session of cowA has ended and the
\* session of T2 is live with a start instant before the current instant
C7_Witness ==
    /\ Len(stream) >= 2
    /\ stream[Len(stream) - 1].rfid = "T1"
    /\ stream[Len(stream)].rfid = "T2"
    /\ subscriber.pc = "idle"
    /\ published # <<>>
    /\ published[Len(published)].event = "session_end"
    /\ published[Len(published)].key = "cowA"
    /\ ACTIVE_SESSIONS["d1"] # NoSession
    /\ ACTIVE_SESSIONS["d1"].rfid_id = "T2"
    /\ ACTIVE_SESSIONS["d1"].time_start < now

\* no session has been timed out by the reaper
NoTimeout ==
    \A i \in 1..Len(published) : published[i].event # "session_timeout"

\* the stream is k samples of one tag on one device with strictly decreasing
\* weight, followed by one sample of that device without a tag
TaggedRun(k) ==
    /\ Len(stream) = k + 1
    /\ stream[1].rfid # NoTag
    /\ \A i \in 1..k : /\ stream[i].device_id = stream[1].device_id
                      /\ stream[i].rfid = stream[1].rfid
                      /\ stream[i].w # NoNumber
    /\ \A i \in 1..(k - 1) : stream[i].w > stream[i + 1].w
    /\ stream[k + 1].rfid = NoTag
    /\ stream[k + 1].device_id = stream[1].device_id

\* the first sample of the stream opens a session (C6)
FirstSampleOpens ==
    /\ OpenOwners(stream[1].rfid) # {}
    /\ stream[1].w > WEIGHT_START_THRESHOLD

ReaperChecks == reaper.pc = "scan" /\ reaper.keys # <<>> /\ reaper' # reaper

\* C9: the reaper takes a live session out of the map exactly when its own
\* now minus the session's last-consumption instant is strictly greater than
\* SESSION_TIMEOUT; otherwise the session stays as it is.  The
\* last-consumption instant moves to a sample's instant exactly when the
\* sample's weight is more than NOISE_THRESHOLD below the last weight.
C9_ReaperCutoff ==
    [][ /\ IF ReaperChecks
           THEN LET d == Head(reaper.keys)
                    st == ACTIVE_SESSIONS[d]
                IN  st # NoSession
                    => IF reaper.now - st.last_consumption_time
                               > SESSION_TIMEOUT_SECONDS
                       THEN /\ ACTIVE_SESSIONS'[d] = NoSession
                            /\ reaper'.pc = "finalize"
                            /\ reaper'.fin.st = st
                       ELSE /\ ACTIVE_SESSIONS'[d] = st
                            /\ reaper'.pc = "scan"
           ELSE TRUE
        /\ IF SampleStep
           THEN LET st == ACTIVE_SESSIONS[Sample.device_id]
                IN  (st # NoSession /\ Sample.rfid = st.rfid_id
                        /\ Sample.w # NoNumber)
                    => ACTIVE_SESSIONS'[Sample.device_id].last_consumption_time
                       = IF st.last_weight - Sample.w > NOISE_THRESHOLD
                         THEN Sample.ts ELSE st.last_consumption_time
           ELSE TRUE ]_vars

\* the reaper has popped a session that was seen within the timeout but
\* whose last consumption is older than the timeout
C9_Witness ==
    /\ reaper.pc = "finalize"
    /\ ACTIVE_SESSIONS[reaper.fin.device_id] = NoSession
    /\ reaper.now - reaper.fin.st.last_consumption_time
          > SESSION_TIMEOUT_SECONDS
    /\ reaper.now - reaper.fin.st.last_seen <= SESSION_TIMEOUT_SECONDS

\* C10: the step in which the reaper times a session out broadcasts
\* session_timeout on the animal's channel and writes nothing to the store;
\* the finalization that follows finds that event already published, ends
\* the session with its last-known weight and last-seen instant, and
\* broadcasts session_end after it.
C10_TimeoutThenFinalize ==
    [][ /\ IF ReaperChecks /\ reaper'.pc = "finalize"
           THEN LET d == Head(reaper.keys)
                    st == ACTIVE_SESSIONS[d]
                IN  /\ BroadcastsOne("session_timeout", d, st)
                    /\ published'[Len(published')].timestamp = st.last_seen
                    /\ UNCHANGED <<eat_session, anomaly>>
           ELSE TRUE
        /\ IF ReaperFinishes
           THEN LET st == reaper.fin.st
                    d == reaper.fin.device_id
                IN  /\ \E i \in 1..Len(published) :
                          /\ published[i].event = "session_timeout"
                          /\ published[i].key = st.cow_id
                          /\ published[i].device_id = d
                          /\ published[i].timestamp = st.last_seen
                    /\ IF st.last_weight < st.weight_start
                       THEN InsertsRow(d, st, st.last_weight, st.last_seen)
                       ELSE eat_session' = eat_session
                    /\ BroadcastsOne("session_end", d, st)
                    /\ published'[Len(published')].timestamp = st.last_seen
           ELSE TRUE ]_vars

\* a timed-out session has been finalized: its row ends at the last-seen
\* instant, later than its last consumption, and session_timeout precedes
\* session_end
C10_Witness ==
    /\ reaper.pc # "finalize"
    /\ \E i \in 1..Len(published), j \in 1..Len(published),
          r \in 1..Len(eat_session) :
          /\ i < j
          /\ published[i].event = "session_timeout"
          /\ published[j].event = "session_end"
          /\ published[j].key = published[i].key
          /\ eat_session[r].cow_id = published[i].key
          /\ eat_session[r].time_end = published[i].timestamp
          /\ eat_session[r].time_end > eat_session[r].time_start

\* ------------------------------------------------ sample-by-sample replay
\* a session row without its identifier
SessionRow(dev, st) ==
    [device_id |-> dev, rfid_id |-> st.rfid_id, cow_id |-> st.cow_id,
     time_start |-> st.time_start, time_end |-> st.last_seen,
     weight_start |-> st.weight_start, weight_end |-> st.last_weight]

RowsOf(table) ==
    {[device_id |-> table[i].device_id, rfid_id |-> table[i].rfid_id,
      cow_id |-> table[i].cow_id, time_start |-> table[i].time_start,
      time_end |-> table[i].time_end, weight_start |-> table[i].weight_start,
      weight_end |-> table[i].weight_end] : i \in 1..Len(table)}

\* the per-sample rules applied to one sample, each to its end, with no
\* reaper
ReplayOne(m, r) ==
    LET st == r.live[m.device_id]
        has == st # NoSession
        cow == CHOOSE c \in GetActiveCowByRfid(m.rfid) : TRUE
    IN  IF m.rfid = (IF has THEN st.rfid_id ELSE NoTag)
        THEN IF has /\ m.w # NoNumber
             THEN [r EXCEPT !.live[m.device_id] =
                                SameTagUpdate(st, m.w, m.temp, m.ts)]
             ELSE r
        ELSE [live |-> [r.live EXCEPT ![m.device_id] =
                          IF StartCondition(m.rfid, m.w) /\ cow # NoCow
                          THEN NewSession(m.rfid, cow, m.w, m.temp, m.ts)
                          ELSE NoSession],
              rows |-> IF has /\ ~SessionCanceled(st.weight_start,
                                                  st.last_weight)
                       THEN r.rows \cup {SessionRow(m.device_id, st)}
                       ELSE r.rows]

RECURSIVE ReplayFrom(_, _)
ReplayFrom(i, r) ==
    IF i > Len(stream) THEN r ELSE ReplayFrom(i + 1, ReplayOne(stream[i], r))

\* the live map and the session rows after the stream so far, sample by
\* sample
Replay == ReplayFrom(1, [live |-> [d \in Devices |-> NoSession], rows |-> {}])

\* no handler is between two store round trips
Quiescent == subscriber.pc = "idle" /\ reaper.pc # "finalize"

\* every sample handled so far carries an instant no more than
\* SESSION_TIMEOUT before the current instant
WithinTimeout ==
    \A i \in 1..Len(stream) : now - stream[i].ts <= SESSION_TIMEOUT_SECONDS

C12_OwnedThroughout ==
    \A i \in 1..Len(eat_session) :
        \E o \in rfid_ownership :
            /\ o.rfid_id = eat_session[i].rfid_id
            /\ o.cow_id = eat_session[i].cow_id
            /\ o.time_start <= eat_session[i].time_start
            /\ o.time_end = NoNumber \/ eat_session[i].time_end <= o.time_end

\* C13: a finalization whose end weight is below the start weight inserts its
\* session row, also when the model lookup, the model loading or the scoring
\* fails.
C13_RowSurvivesScoringFailure ==
    [][ /\ IF SubscriberFinishes
           THEN LET fin == subscriber.fin
                IN  fin.last_weight < fin.st.weight_start
                    => InsertsRow(fin.device_id, fin.st, fin.last_weight,
                                  fin.last_timestamp)
           ELSE TRUE
        /\ IF ReaperFinishes
           THEN LET fin == reaper.fin
                IN  fin.last_weight < fin.st.weight_start
                    => InsertsRow(fin.device_id, fin.st, fin.last_weight,
                                  fin.last_timestamp)
           ELSE TRUE ]_vars

\* the finalization of fin ends in this step: it writes an anomaly row
\* exactly when it inserts the session row and a model was found and used to
\* compute the score it publishes; with no model for the animal and weight
\* consumed it inserts the session row and no anomaly row
AnomalyRule(fin) ==
    LET scored == /\ Len(published') = Len(published) + 1
                  /\ published'[Len(published')].score # NoScore
    IN  /\ (anomaly' # anomaly)
           <=> (Len(eat_session') = Len(eat_session) + 1 /\ scored)
        /\ (/\ GetActiveModelForCow(fin.st.cow_id) = {}
            /\ fin.last_weight < fin.st.weight_start)
           => /\ InsertsRow(fin.device_id, fin.st, fin.last_weight,
                            fin.last_timestamp)
              /\ anomaly' = anomaly

\* C14: finalize_session inserts an anomaly row for a session if and only if
\* a model was found and used to compute the session's score; when the animal
\* has no active model and there is no global fallback, the session row is
\* inserted and no anomaly row is written.
C14_AnomalyIffScored ==
    [][ /\ IF SubscriberFinishes THEN AnomalyRule(subscriber.fin) ELSE TRUE
        /\ IF ReaperFinishes THEN AnomalyRule(reaper.fin) ELSE TRUE ]_vars

\* C15: every persisted session without an anomaly row whose animal has an
\* active model (its own or the global fallback) eventually gets an anomaly
\* row from the scoring cycle.
C15_EventuallyScored ==
    \A i \in 1..2 :
        (/\ Len(eat_session) >= i
         /\ GetActiveModelForCow(eat_session[i].cow_id) # {}
         /\ \A a \in anomaly : a.session_id # eat_session[i].session_id)
        ~> (\E a \in anomaly : a.session_id = i)

\* the first call of save_anomaly_scores for the pair of call i
FirstWrite(i) ==
    LET t == anomaly_writes[i].row
        same == {j \in 1..i : /\ anomaly_writes[j].row.model_id = t.model_id
                              /\ anomaly_writes[j].row.session_id = t.session_id}
    IN  anomaly_writes[CHOOSE j \in same : \A k \in same : j <= k].row

\* C16: however often and by whichever caller a score is written for a
\* (model, session) pair, the anomaly table holds exactly one row for the
\* pair, with the values of the first write.
C16_FirstWriteWins ==
    \A i \in 1..Len(anomaly_writes) :
        AnomalyRowsOf(anomaly, anomaly_writes[i].row.model_id,
                      anomaly_writes[i].row.session_id) = {FirstWrite(i)}

\* finalize_session and the scoring cycle have both written the same pair,
\* with different scores
C16_Witness ==
    \E i, j \in 1..Len(anomaly_writes) :
        /\ i < j
        /\ anomaly_writes[i].writer # anomaly_writes[j].writer
        /\ anomaly_writes[i].row.model_id = anomaly_writes[j].row.model_id
        /\ anomaly_writes[i].row.session_id = anomaly_writes[j].row.session_id
        /\ anomaly_writes[i].row # anomaly_writes[j].row
        /\ Cardinality(anomaly) = 1

\* C17: train_model_for_cow skips an animal exactly when it has fewer than
\* 10 sessions in the trailing 30 days, and goes on to train and activate a
\* model when it has 10 or more.
C17_TrainsFromTenSessions ==
    \A r \in Runs :
        job[r].pc \in {"skipped", "saving", "done"}
        => (job[r].pc = "skipped" <=> job[r].session_count < 10)

\* C18: when an on-demand training job has ended, a status event has been
\* published on the system channel ml_training_status.
C18_StatusPublished ==
    job["ondemand"].pc \in {"skipped", "done"} => ml_training_status # <<>>

\* C19: each tag has at most one open ownership window, also when two
\* assign_rfid_to_cow calls for the same tag run concurrently.
C19_OneOpenWindow ==
    \A o \in rfid_ownership : Cardinality(OpenWindows(o.rfid_id)) <= 1

\* C20: with no session live on the device, a sample whose tag has no open
\* ownership window is appended to the raw buffer and changes neither the
\* live map nor the published events, in the step that takes the sample and
\* in the start_new_session step that follows it.
C20_UnknownTagNoEffect ==
    [][ /\ (/\ SampleStep
            /\ ACTIVE_SESSIONS[Sample.device_id] = NoSession
            /\ Sample.rfid # NoTag
            /\ OpenOwners(Sample.rfid) = {})
           => /\ Len(MQTT_DATA_BUFFER') = Len(MQTT_DATA_BUFFER) + 1
              /\ SubSeq(MQTT_DATA_BUFFER', 1, Len(MQTT_DATA_BUFFER))
                    = MQTT_DATA_BUFFER
              /\ LET rec == MQTT_DATA_BUFFER'[Len(MQTT_DATA_BUFFER')]
                 IN  /\ rec.device_id = Sample.device_id
                     /\ rec.rfid_id = Sample.rfid
                     /\ rec.weight = Sample.w
                     /\ rec.timestamp = Sample.ts
              /\ UNCHANGED <<ACTIVE_SESSIONS, published>>
        /\ (/\ subscriber.pc = "start"
            /\ subscriber'.pc # "start"
            /\ OpenOwners(subscriber.msg.rfid) = {})
           => /\ UNCHANGED <<ACTIVE_SESSIONS, published, MQTT_DATA_BUFFER>>
              /\ subscriber'.pc = "idle" ]_vars

\* a sample of T3, whose only window is closed, with a weight above the
\* start threshold has been handled to its end: it is buffered, no session
\* is live and nothing was published
C20_Witness ==
    /\ Len(stream) >= 1
    /\ stream[Len(stream)].rfid = "T3"
    /\ stream[Len(stream)].w > WEIGHT_START_THRESHOLD
    /\ subscriber.pc = "idle"
    /\ MQTT_DATA_BUFFER[Len(MQTT_DATA_BUFFER)].rfid_id = "T3"
    /\ \A d \in Devices : ACTIVE_SESSIONS[d] = NoSession
    /\ published = <<>>

\* C21: a malformed message (invalid JSON, undecodable payload, missing
\* device id) is dropped: the step that handles it leaves the raw buffer and
\* the live session map as they are, the broker subscription stays connected
\* and the subscriber is ready for the next message.
C21_MalformedDropped ==
    [][ Len(malformed') = Len(malformed) + 1
        => /\ UNCHANGED <<MQTT_DATA_BUFFER, ACTIVE_SESSIONS>>
           /\ listener' = "connected"
           /\ subscriber'.pc = "idle" ]_vars

\* C22: the step in which the broker connection drops hands the raw buffer to
\* flush_buffer_to_db (on a store that accepts writes the buffer is emptied
\* into the raw-sample table) before the listener sleeps, and the listener
\* connects again no sooner than 5 seconds after the drop.
C22_FlushThenBackoff ==
    [][ /\ (listener = "connected" /\ listener' = "backoff")
           => /\ wake_at' = now + 5
              /\ \E F \in FaultsNow :
                    ApplyFlush(FlushBufferToDb(MQTT_DATA_BUFFER, F))
              /\ storeUp => /\ MQTT_DATA_BUFFER' = <<>>
                            /\ output_sensor'
                                  = output_sensor \o MQTT_DATA_BUFFER
        /\ (listener = "backoff" /\ listener' = "connected")
           => now >= wake_at ]_vars

\* the listener is connected again, 5 seconds or more after a drop whose
\* flush stored the samples buffered until then (no flush of the loop's own
\* triggers has happened)
C22_Witness ==
    /\ listener = "connected"
    /\ wake_at = ReconnectDelay
    /\ now >= wake_at
    /\ last_flush_time = 0
    /\ output_sensor # <<>>
    /\ storeUp

\* C23: when the subscriber task has been cancelled, every sample it had
\* accepted is in the raw-sample table.
C23_FlushedOnCancel ==
    listener = "cancelled" => \A n \in 1..accepted : InTable(n)

\* ------------------------------------------------------------ hub helpers
\* the queue of response r is in the list of key k
Registered(r, k) == \E i \in 1..Len(clients[k]) : clients[k][i] = r

\* how often the event e is in the queue q
TimesIn(q, e) == Cardinality({i \in 1..Len(q) : q[i] = e})

\* C24: a broadcast on a key appends its event once to the queue of every
\* response registered for the key and leaves every other queue as it is; a
\* queue that is in no list gets no event.
C24_BroadcastReachesItsKey ==
    [][ /\ Len(hub_log') = Len(hub_log) + 1
           => LET e == hub_log'[Len(hub_log')]
              IN  \A r \in ResponseIds :
                     queues'[r] = IF Registered(r, e.key)
                                  THEN Append(queues[r], e) ELSE queues[r]
        /\ \A r \in ResponseIds :
              (\A k \in HubKeys : ~Registered(r, k))
              => Len(queues'[r]) <= Len(queues[r]) ]_vars

\* a response waits on the animal's key and another on a different key: the
\* last event is once in the queue of the first, the queue of the second is
\* empty
C24_Witness ==
    /\ hub_log # <<>>
    /\ \E r1, r2 \in ResponseIds :
          /\ Registered(r1, "cowA")
          /\ \E k \in HubKeys \ {"cowA"} : Registered(r2, k)
          /\ TimesIn(queues[r1], hub_log[Len(hub_log)]) = 1
          /\ queues[r2] = <<>>

\* C25: no queue in a list of the hub is ever full, whatever its backlog:
\* each put of a broadcast returns at once and the publisher never waits for
\* a subscriber.
C25_BroadcastNeverWaits ==
    \A k \in HubKeys : \A i \in 1..Len(clients[k]) :
        ~QueueFull(queues[clients[k][i]])

\* a response that has taken nothing has a backlog of three events: the
\* third broadcast completed over a backlog of two
C25_Witness ==
    \E r \in ResponseIds :
        /\ Registered(r, "cowA")
        /\ responses[r].frames = <<>>
        /\ Len(queues[r]) >= 3

\* C26: the length of every subscriber queue stays below the number of
\* events the publishers emit, also when the subscriber takes nothing.
C26_QueuesBounded ==
    \A r \in ResponseIds : Len(queues[r]) < MaxEvents

\* the frames of response r that carry a hub event
EventFrames(r) ==
    SelectSeq(responses[r].frames, LAMBDA f : f.event # "connected")

\* the events published on the key of response r since its connect
PublishedFor(r) ==
    SelectSeq(SubSeq(hub_log, responses[r].since + 1, Len(hub_log)),
              LAMBDA e : e.key = responses[r].key)

IsPrefix(a, b) == Len(a) <= Len(b) /\ SubSeq(b, 1, Len(a)) = a

\* C27: the hub events a response has emitted are, in order, the first of the
\* events published on its key since it connected, whichever task published
\* them.
C27_ConsumedInPublicationOrder ==
    \A r \in ResponseIds : IsPrefix(EventFrames(r), PublishedFor(r))

\* a response has emitted an event of the subscriber task and one of the
\* reaper
C27_Witness ==
    \E r \in ResponseIds :
        \E i, j \in 1..Len(EventFrames(r)) :
            /\ EventFrames(r)[i].by = "subscriber"
            /\ EventFrames(r)[j].by = "reaper"

\* C28: the first frame of every SSE response is the connected frame; no
\* frame carrying a hub event precedes it.
C28_ConnectedFrameFirst ==
    \A r \in ResponseIds :
        responses[r].frames # <<>>
        => responses[r].frames[1].event = "connected"

\* C29: the queue of an SSE response that has ended is in no list of the
\* hub, and the hub holds no more queues than there are live responses.
C29_EndedUnregistered ==
    /\ \A r \in ResponseIds :
          responses[r].pc = "ended" => \A k \in HubKeys : ~Registered(r, k)
    /\ Cardinality({r \in ResponseIds : \E k \in HubKeys : Registered(r, k)})
          <= Cardinality({r \in ResponseIds : responses[r].pc = "waiting"})

\* C30: every row engineer_features returns has exactly seven components:
\* duration minutes, total consumption, rate per minute, sine and cosine of
\* the start hour, day-of-week index and, last, the session's mean
\* temperature.
C30_SevenFeatures ==
    \A i \in 1..Len(feature_output) :
        /\ Len(feature_output[i]) = 7
        /\ [k \in 1..6 |-> feature_output[i][k].name]
              = <<"duration_min", "total_consumption", "rate_per_min",
                  "hour_sin", "hour_cos", "day_of_week">>
        /\ feature_output[i][7].value = feature_input[i].average_temp

\* two fractions are the same number
SameFraction(a, b) == a.num * b.den = b.num * a.den

\* the columns whose values are fractions
FractionColumns ==
    {"duration_min", "rate_per_min", "consumption_deviation",
     "duration_deviation"}

\* two rows hold the same columns with the same values
SameVector(row, other) ==
    /\ Len(row) = Len(other)
    /\ \A k \in 1..Len(row) :
          /\ row[k].name = other[k].name
          /\ IF row[k].name \in FractionColumns
             THEN SameFraction(row[k].value, other[k].value)
             ELSE row[k].value = other[k].value

\* C31: the vector engineer_features computes for a session depends only on
\* that session's record: the row of a session in a list of sessions is the
\* row engineer_features returns for that session alone.
C31_SameVectorAlone ==
    \A i \in 1..Len(feature_output) :
        SameVector(feature_output[i],
                   EngineerFeatures(<<feature_input[i]>>, WindowSize)[1])

\* the session_end events among the published events
SessionEnds(events) ==
    Cardinality({i \in 1..Len(events) : events[i].event = "session_end"})

\* a finalization begins: the task has entered finalize_session with fin
SubscriberBegins == subscriber.pc # "finalize" /\ subscriber'.pc = "finalize"
ReaperBegins == reaper.pc # "finalize" /\ reaper'.pc = "finalize"

\* C32: each opened session is finalized at most once. A finalization begins
\* only by taking a live session out of ACTIVE_SESSIONS, in the same step and
\* by one task only, so no second finalization of that session can begin;
\* and a finalization inserts at most one session row and broadcasts one
\* session_end event, which nothing else does.
C32_FinalizedAtMostOnce ==
    [][/\ SubscriberBegins =>
            /\ subscriber'.fin.st # NoSession
            /\ ACTIVE_SESSIONS[subscriber'.fin.device_id] = subscriber'.fin.st
            /\ ACTIVE_SESSIONS'[subscriber'.fin.device_id] = NoSession
            /\ ~ReaperBegins
       /\ ReaperBegins =>
            /\ reaper'.fin.st # NoSession
            /\ ACTIVE_SESSIONS[reaper'.fin.device_id] = reaper'.fin.st
            /\ ACTIVE_SESSIONS'[reaper'.fin.device_id] = NoSession
            /\ ~SubscriberBegins
       /\ IF SubscriberFinishes \/ ReaperFinishes
          THEN /\ Len(eat_session') <= Len(eat_session) + 1
               /\ SessionEnds(published') <= SessionEnds(published) + 1
               /\ ~(SubscriberFinishes /\ ReaperFinishes)
          ELSE /\ eat_session' = eat_session
               /\ SessionEnds(published') = SessionEnds(published)]_vars

\* the reaper has listed a device whose session is past its timeout and,
\* before it looks at it, the subscriber's tag-change path has taken that
\* session: both target the same session
C32_Witness ==
    /\ reaper.pc = "scan"
    /\ reaper.keys # <<>>
    /\ subscriber.pc = "finalize"
    /\ subscriber.fin.device_id = Head(reaper.keys)
    /\ TimedOut(reaper.now, subscriber.fin.st)

\* the position in events of the last session_timeout event of a device
\* (0 when there is none)
LastTimeoutOf(events, dev) ==
    LET at == {i \in 1..Len(events) :
                  /\ events[i].event = "session_timeout"
                  /\ events[i].device_id = dev}
    IN  IF at = {} THEN 0 ELSE CHOOSE i \in at : \A j \in at : j <= i

\* C33: the session_end event of a session the reaper finalizes is published
\* before any sensor_update event of a later session on the same device:
\* when the reaper's finalization publishes session_end, no sensor_update of
\* that device has been published since the reaper took the session out of
\* ACTIVE_SESSIONS (the step that published its session_timeout).
C33_EndBeforeLaterUpdates ==
    [][ReaperFinishes =>
          LET dev == reaper.fin.device_id
              from == LastTimeoutOf(published, dev)
          IN  \A i \in (from + 1)..Len(published) :
                  ~(/\ published[i].event = "sensor_update"
                    /\ published[i].device_id = dev)]_vars

\* the samples a flush after the next accepted sample would write: those in
\* the buffer and the new one
DueBatch == {MQTT_DATA_BUFFER[i].seq : i \in 1..Len(MQTT_DATA_BUFFER)}
                \cup {accepted + 1}

\* C34: after a processed message a flush that is due (N samples buffered or
\* T seconds since the last flush that succeeded) and fails to write its
\* batch does not restart the interval timer: last_flush_time keeps its
\* value; a flush that writes its batch sets it to the current time.
C34_FailedFlushKeepsTimer ==
    [][accepted' = accepted + 1 =>
          LET due == \/ Len(MQTT_DATA_BUFFER) + 1 >= BUFFER_SIZE
                     \/ now - last_flush_time >= BUFFER_TIMEOUT
              written == \A n \in DueBatch :
                            \E i \in 1..Len(output_sensor') :
                                output_sensor'[i].seq = n
          IN  /\ (due /\ ~written) => last_flush_time' = last_flush_time
              /\ (due /\ written) => last_flush_time' = now]_vars

\* the rows written to the raw-sample table by the step
InsertedRows ==
    {output_sensor'[i] : i \in (Len(output_sensor) + 1)..Len(output_sensor')}

\* C35: a flush on a store that accepts writes leaves each device of its
\* batch with a last-seen instant equal to the greatest instant among that
\* device's samples in the batch.
C35_LastSeenIsBatchMaximum ==
    [][(storeUp /\ Len(output_sensor') > Len(output_sensor)) =>
          \A dev \in FlushDevices :
              LET times == {r.timestamp : r \in
                               {x \in InsertedRows : x.device_id = dev}}
              IN  times # {} =>
                    /\ device'[dev].last_seen \in times
                    /\ \A t \in times : t <= device'[dev].last_seen]_vars

\* the temperature of sample i of the stream as a summand, and whether the
\* sample carried one
TempValue == [i \in 1..Len(stream) |->
                 IF stream[i].temp = NoNumber THEN 0 ELSE stream[i].temp]
TempPresent == [i \in 1..Len(stream) |->
                   IF stream[i].temp = NoNumber THEN 0 ELSE 1]

\* C36: the mean temperature stored for a session is the sum of the
\* temperatures present on its samples, the opening sample included and a
\* temperature of 0 counted as present, divided by their number, and 0 when
\* no sample carried one: so for the one session of a run of k tagged
\* samples that the absent tag ends.
C36_MeanOfPresentTemperatures ==
    \A k \in 2..Len(stream) :
        (TaggedRun(k) /\ FirstSampleOpens /\ NoTimeout
            /\ subscriber.pc = "idle" /\ Len(eat_session) = 1)
        => LET sum == SumOver(TempValue, 1, k)
               count == SumOver(TempPresent, 1, k)
               mean == IF count = 0 THEN Frac(0, 1) ELSE Frac(sum, count)
           IN  SameFraction(eat_session[1].average_temp, mean)

\* the animals whose history over the whole run holds raw row i
HistoryOwners(i) ==
    {c \in AssignCows :
        \E m \in GetSensorHistory(c, 0, MaxFlushTime) : m[1] = i}

\* C37: every raw sample is returned by the sensor history of at most one
\* animal, also a sample of a reassigned tag stamped at the instant of the
\* reassignment.
C37_SampleOfOneAnimal ==
    \A i \in 1..Len(output_sensor) : Cardinality(HistoryOwners(i)) <= 1

\* C38: every anomaly row finalize_session writes holds a score, and the
\* model id stored in the row is the id of the model that computed the
\* score, also when a training run has activated a new model since.
C38_RowOfScoringModel ==
    [][(subscriber.pc = "store" /\ subscriber'.pc # "store") =>
          \A a \in anomaly' \ anomaly :
              /\ a.anomaly_score # NoScore
              /\ a.model_id = subscriber.scored_by]_vars

\* the devices the reaper listed at its wake-up and has not looked at yet
\* once the step is taken
StillToCheck ==
    IF reaper.pc = "scan" /\ reaper.keys # <<>> THEN Tail(reaper.keys)
    ELSE reaper.keys

\* C39: the reaper ends a tick only after it has looked at every session it
\* listed: when it goes back to sleep, also after an error on one device, no
\* listed device with a live session is left unchecked.
C39_ErrorDoesNotStopScan ==
    [][(reaper.pc # "sleep" /\ reaper'.pc = "sleep") =>
          \A i \in 1..Len(StillToCheck) :
              ACTIVE_SESSIONS[StillToCheck[i]] = NoSession]_vars

\* C40: once the client of an SSE response has disconnected, the response
\* eventually ends and its queue is in no list of the hub, also when nothing
\* more is published on its channel.
C40_GoneResponseEnds ==
    \A r \in ResponseIds :
        (responses[r].pc = "gone")
            ~> (/\ responses[r].pc = "ended"
                /\ \A k \in HubKeys : ~Registered(r, k))

====
